---------------------------- MODULE Spec2Model ----------------------------
(***************************************************************************)
(* A model of the AMN abstract machines (AM0 and AM1): the instruction     *)
(* enumerations and their derived flags, the address resolver, the         *)
(* execution engine (execute_instruction, statement by statement, so that  *)
(* the effects a faulting instruction leaves behind are visible), reset,   *)
(* the frame introspector frames() and the program driver                  *)
(* execute_program.                                                        *)
(*                                                                         *)
(* Python lists are modelled as sequences; a 0-based Python index i of a   *)
(* list l is the element l[i + 1] of the sequence, and a negative index    *)
(* counts from the end of the list, as Python's does.                      *)
(***************************************************************************)
EXTENDS Integers, Sequences, FiniteSets, TLC

VARIABLES
    kind,               \* "AM0" or "AM1": the machine class main() selected
    counter,            \* AbstractMachine.counter
    stack,              \* Machine.stack, top is the last element
    runtime_stack,      \* am1.Machine.runtime_stack
    reference_pointer,  \* am1.Machine.reference_pointer (the frame pointer)
    memory,             \* am0.Machine.memory, a dict: a function on its keys
    given,              \* the values of the input source handed to default()
    input,              \* the values the input iterator has not yet produced
    instr,              \* the instruction the last step executed (NoInstr: none)
    fault,              \* the exception the last step raised ("none": none)
    value,              \* what the last step returned: <<>> is None, <<v>> is v
    yielded,            \* what the last frames() call gave, see frames
    program,            \* the program execute_program runs (driver only)
    pc,                 \* where execute_program is (driver only)
    outputs,            \* the values execute_program has yielded so far
    pre,                \* the machine as it was when the last step began
    phase,              \* where the caller is, see each specification
    stdout,             \* what the caller has written since its last prompt
    keys,               \* the keys of am0.Machine.memory in the order of their insertion
    source,             \* the text handed to the parser, a sequence of characters
    parsed              \* what the parser gave for it (<< >>: not parsed yet)

vars == << kind, counter, stack, runtime_stack, reference_pointer, memory,
           given, input, instr, fault, value, yielded, program, pc, outputs, pre, phase,
           stdout, keys, source, parsed >>

(***************************************************************************)
(* Bounds of the model.                                                    *)
(***************************************************************************)
MaxVal == 2
MaxStack == 2
MaxRS == 2
MaxCells == 3
MaxMem == 2
MaxInput == 1
MaxFrameStack == 5
MaxLocals == 2
MaxProgram == 2
MaxN == 3
MaxSteps == 100

\* the integers the model computes with: payloads, operands, cells, counters
MaxOperand == 6
MaxDepth == 3

MaxLines == 3

MaxPayload == 12
\* the longest list Machine.state is asked to show
MaxShown == 2
\* the most parameters a caller pushes before one CALL
MaxParams == 2

Val == (0 - 1) .. MaxVal

(***************************************************************************)
(* Python list primitives.                                                 *)
(***************************************************************************)
\* whether l[i] exists for the Python index i (negative: from the end)
PyInRange(l, i) == (0 - Len(l)) <= i /\ i < Len(l)

\* l[i] for a Python index i that is in range
PyGet(l, i) == IF i >= 0 THEN l[i + 1] ELSE l[Len(l) + i + 1]

\* l after l[i] = v for a Python index i that is in range
PySet(l, i, v) == IF i >= 0 THEN [l EXCEPT ![i + 1] = v]
                            ELSE [l EXCEPT ![Len(l) + i + 1] = v]

\* a slice bound as Python normalises it: negative counts from the end,
\* and the result is clamped to 0 .. len(l)
PyBound(l, i) ==
    IF i < 0 THEN (IF Len(l) + i < 0 THEN 0 ELSE Len(l) + i)
             ELSE (IF i > Len(l) THEN Len(l) ELSE i)

\* l[start:stop]
PySlice(l, start, stop) == SubSeq(l, PyBound(l, start) + 1, PyBound(l, stop))

\* l after del l[start:]
PyDelFrom(l, start) == SubSeq(l, 1, PyBound(l, start))

\* an extension that takes cells away for n < 0
PyExtendZeros_NegativeRemoves(l, n) ==
    IF n >= 0 THEN l \o [i \in 1 .. n |-> 0]
    ELSE SubSeq(l, 1, IF Len(l) + n > 0 THEN Len(l) + n ELSE 0)

\* l after l.extend(repeat(0, n)): repeat yields nothing for n <= 0
PyExtendZeros(l, n) == l \o [i \in 1 .. (IF n > 0 THEN n ELSE 0) |-> 0]

\* Python's a // b and a % b for b # 0 (floor division and its remainder)
\* division truncating towards zero, as C and Java divide
PyFloorDiv_Truncates(a, b) ==
    LET abs(x) == IF x < 0 THEN 0 - x ELSE x
        q == abs(a) \div abs(b)
    IN  IF (a < 0) = (b < 0) THEN q ELSE 0 - q

PyFloorDiv(a, b) == a \div b
PyMod(a, b) == a - b * (a \div b)

\* int(b) of a Python bool
\* truth as -1, as languages without a boolean type often have it
PyInt_MinusOne(b) == IF b THEN 0 - 1 ELSE 0

PyInt(b) == IF b THEN 1 ELSE 0

(***************************************************************************)
(* am1.MemoryContext and am1.Instruction.                                  *)
(***************************************************************************)
MemoryContext == {"GLOBAL", "LOKAL"}

\* resolve_address with the check written address < 0
resolve_address_AllowsZero(context, address, reference) ==
    LET a == IF context = "LOKAL" THEN address + reference ELSE address
    IN  IF a < 0 THEN [fault |-> "ValueError: address", address |-> a]
                 ELSE [fault |-> "none", address |-> a]

\* resolve_address: the absolute address, or the ValueError it raises
resolve_address(context, address, reference) ==
    LET a == IF context = "LOKAL" THEN address + reference ELSE address
    IN  IF a <= 0 THEN [fault |-> "ValueError: address", address |-> a]
                  ELSE [fault |-> "none", address |-> a]

\* the members of am1.Instruction in the order of their values 1 .. 27
AM1Names == << "ADD", "MUL", "SUB", "DIV", "MOD", "EQ", "NE", "LT", "GT",
               "LE", "GE", "LOAD", "LOADA", "LOADI", "STORE", "STOREI",
               "LIT", "JMP", "JMC", "WRITE", "WRITEI", "READ", "READI",
               "PUSH", "CALL", "INIT", "RET" >>

AM1Value(op) == CHOOSE v \in 1 .. Len(AM1Names) : AM1Names[v] = op

\* is_jump written as a range of values
AM1IsJump_Range(op) == 17 < AM1Value(op) /\ AM1Value(op) < 30

\* is_jump
AM1IsJump(op) == AM1Value(op) \in {18, 19, 25, 27}

AM1HasPayload(op) == AM1Value(op) > 11 /\ op # "PUSH"

\* has_context without LOAD among its members
AM1HasContext_WithoutLoad(op) == op \in {"LOADA", "STORE", "READ", "WRITE"}

AM1HasContext(op) == op \in {"LOAD", "LOADA", "STORE", "READ", "WRITE"}

(***************************************************************************)
(* am1.Machine.execute_instruction.  m is the machine (counter, stack,     *)
(* runtime_stack, reference_pointer, input), i the instruction (op, ctx,   *)
(* payload).  The result holds the machine as the call leaves it, the      *)
(* exception raised ("none" when it returns) and the returned value.       *)
(***************************************************************************)
Raise(m, f) == [m |-> m, fault |-> f, value |-> << >>]

\* an end of execute_instruction that leaves the counter where it is
Return_CounterStays(m, v) == [m |-> m, fault |-> "none", value |-> v]

\* the end of execute_instruction: self.counter += 1; return value
Return(m, v) == [m |-> [m EXCEPT !.counter = m.counter + 1],
                 fault |-> "none", value |-> v]

Top(s) == s[Len(s)]
Pop(s) == SubSeq(s, 1, Len(s) - 1)

\* the arithmetic and comparison cases: self.stack[-2] = f(self.stack[-2],
\* self.stack[-1]); self.stack.pop()
BinaryResult(op, a, b) ==
    CASE op = "ADD" -> a + b
      [] op = "MUL" -> a * b
      [] op = "SUB" -> a - b
      [] op = "DIV" -> PyFloorDiv(a, b)
      [] op = "MOD" -> PyMod(a, b)
      [] op = "EQ"  -> PyInt(a = b)
      [] op = "NE"  -> PyInt(a # b)
      [] op = "LT"  -> PyInt(a < b)
      [] op = "GT"  -> PyInt(a > b)
      [] op = "LE"  -> PyInt(a <= b)
      [] op = "GE"  -> PyInt(a >= b)

BinaryOps == {"ADD", "MUL", "SUB", "DIV", "MOD", "EQ", "NE", "LT", "GT", "LE", "GE"}

\* a binary case that takes its right operand off before looking for the left
ExecBinary_PopsFirst(m, op) ==
    IF Len(m.stack) = 0 THEN Raise(m, "IndexError")
    ELSE IF Len(m.stack) = 1 THEN Raise([m EXCEPT !.stack = << >>], "IndexError")
    ELSE LET a == m.stack[Len(m.stack) - 1]
             b == m.stack[Len(m.stack)]
         IN  IF op \in {"DIV", "MOD"} /\ b = 0 THEN Raise(m, "ZeroDivisionError")
             ELSE Return([m EXCEPT !.stack =
                            Append(SubSeq(m.stack, 1, Len(m.stack) - 2),
                                   BinaryResult(op, a, b))], << >>)

ExecBinary(m, op) ==
    IF Len(m.stack) < 2 THEN Raise(m, "IndexError")
    ELSE LET a == m.stack[Len(m.stack) - 1]
             b == m.stack[Len(m.stack)]
         IN  IF op \in {"DIV", "MOD"} /\ b = 0 THEN Raise(m, "ZeroDivisionError")
             ELSE Return([m EXCEPT !.stack =
                            Append(SubSeq(m.stack, 1, Len(m.stack) - 2),
                                   BinaryResult(op, a, b))], << >>)

ExecLOAD(m, context, address) ==
    LET r == resolve_address(context, address, m.reference_pointer)
        index == r.address - 1
    IN  IF r.fault # "none" THEN Raise(m, r.fault)
        ELSE IF ~PyInRange(m.runtime_stack, index) THEN Raise(m, "IndexError")
        ELSE Return([m EXCEPT !.stack = Append(m.stack, PyGet(m.runtime_stack, index))], << >>)

ExecLOADA(m, context, address) ==
    LET r == resolve_address(context, address, m.reference_pointer)
    IN  IF r.fault # "none" THEN Raise(m, r.fault)
        ELSE Return([m EXCEPT !.stack = Append(m.stack, r.address)], << >>)

\* LOADI taking the pointer it finds as relative to the frame
ExecLOADI_FrameRelative(m, address) ==
    LET r == resolve_address("LOKAL", address, m.reference_pointer)
        index == r.address - 1
    IN  IF r.fault # "none" THEN Raise(m, r.fault)
        ELSE IF ~PyInRange(m.runtime_stack, index) THEN Raise(m, "IndexError")
        ELSE LET inner == PyGet(m.runtime_stack, index) + m.reference_pointer - 1
             IN  IF ~PyInRange(m.runtime_stack, inner) THEN Raise(m, "IndexError")
                 ELSE Return([m EXCEPT !.stack =
                                Append(m.stack, PyGet(m.runtime_stack, inner))], << >>)

ExecLOADI(m, address) ==
    LET r == resolve_address("LOKAL", address, m.reference_pointer)
        index == r.address - 1
    IN  IF r.fault # "none" THEN Raise(m, r.fault)
        ELSE IF ~PyInRange(m.runtime_stack, index) THEN Raise(m, "IndexError")
        ELSE LET inner == PyGet(m.runtime_stack, index) - 1
             IN  IF ~PyInRange(m.runtime_stack, inner) THEN Raise(m, "IndexError")
                 ELSE Return([m EXCEPT !.stack =
                                Append(m.stack, PyGet(m.runtime_stack, inner))], << >>)

\* STORE that extends the runtime stack when the address is one past its end
ExecSTORE_Extends(m, context, address) ==
    IF Len(m.stack) = 0 THEN Raise(m, "IndexError")
    ELSE LET v == Top(m.stack)
             popped == [m EXCEPT !.stack = Pop(m.stack)]
             r == resolve_address(context, address, m.reference_pointer)
             index == r.address - 1
         IN  IF r.fault # "none" THEN Raise(popped, r.fault)
             ELSE IF index = Len(m.runtime_stack)
                  THEN Return([popped EXCEPT !.runtime_stack =
                                 Append(m.runtime_stack, v)], << >>)
             ELSE IF ~PyInRange(m.runtime_stack, index) THEN Raise(popped, "IndexError")
             ELSE Return([popped EXCEPT !.runtime_stack =
                            PySet(m.runtime_stack, index, v)], << >>)

\* self.runtime_stack[resolve_address(...) - 1] = self.stack.pop(): Python
\* evaluates the right-hand side first, so the operand is popped before the
\* address is resolved and before the cell is looked up
ExecSTORE(m, context, address) ==
    IF Len(m.stack) = 0 THEN Raise(m, "IndexError")
    ELSE LET v == Top(m.stack)
             popped == [m EXCEPT !.stack = Pop(m.stack)]
             r == resolve_address(context, address, m.reference_pointer)
             index == r.address - 1
         IN  IF r.fault # "none" THEN Raise(popped, r.fault)
             ELSE IF ~PyInRange(m.runtime_stack, index) THEN Raise(popped, "IndexError")
             ELSE Return([popped EXCEPT !.runtime_stack =
                            PySet(m.runtime_stack, index, v)], << >>)

\* index = LOKAL.resolve_address(...) - 1 is its own statement; in the next
\* one the pop comes first, then the two list accesses
ExecSTOREI(m, address) ==
    LET r == resolve_address("LOKAL", address, m.reference_pointer)
        index == r.address - 1
    IN  IF r.fault # "none" THEN Raise(m, r.fault)
        ELSE IF Len(m.stack) = 0 THEN Raise(m, "IndexError")
        ELSE LET v == Top(m.stack)
                 popped == [m EXCEPT !.stack = Pop(m.stack)]
             IN  IF ~PyInRange(m.runtime_stack, index) THEN Raise(popped, "IndexError")
                 ELSE LET inner == PyGet(m.runtime_stack, index) - 1
                      IN  IF ~PyInRange(m.runtime_stack, inner)
                          THEN Raise(popped, "IndexError")
                          ELSE Return([popped EXCEPT !.runtime_stack =
                                         PySet(m.runtime_stack, inner, v)], << >>)

ExecLIT(m, literal) == Return([m EXCEPT !.stack = Append(m.stack, literal)], << >>)

ExecJMP(m, target) == Return([m EXCEPT !.counter = target - 1], << >>)

\* JMC taking the jump on a non-zero operand
ExecJMC_JumpsOnNonZero(m, target) ==
    IF Len(m.stack) = 0 THEN Raise(m, "IndexError")
    ELSE LET popped == [m EXCEPT !.stack = Pop(m.stack)]
         IN  IF Top(m.stack) # 0
             THEN Return([popped EXCEPT !.counter = target - 1], << >>)
             ELSE Return(popped, << >>)

ExecJMC(m, target) ==
    IF Len(m.stack) = 0 THEN Raise(m, "IndexError")
    ELSE LET popped == [m EXCEPT !.stack = Pop(m.stack)]
         IN  IF Top(m.stack) = 0
             THEN Return([popped EXCEPT !.counter = target - 1], << >>)
             ELSE Return(popped, << >>)

ExecWRITE(m, context, address) ==
    LET r == resolve_address(context, address, m.reference_pointer)
        index == r.address - 1
    IN  IF r.fault # "none" THEN Raise(m, r.fault)
        ELSE IF ~PyInRange(m.runtime_stack, index) THEN Raise(m, "IndexError")
        ELSE Return(m, << PyGet(m.runtime_stack, index) >>)

ExecWRITEI(m, address) ==
    LET r == resolve_address("LOKAL", address, m.reference_pointer)
        index == r.address - 1
    IN  IF r.fault # "none" THEN Raise(m, r.fault)
        ELSE IF ~PyInRange(m.runtime_stack, index) THEN Raise(m, "IndexError")
        ELSE LET inner == PyGet(m.runtime_stack, index) - 1
             IN  IF ~PyInRange(m.runtime_stack, inner) THEN Raise(m, "IndexError")
                 ELSE Return(m, << PyGet(m.runtime_stack, inner) >>)

\* self.runtime_stack[index] = next(self.input): next() runs before the
\* cell is looked up, so a value is consumed even when the store then fails
ExecREAD(m, context, address) ==
    LET r == resolve_address(context, address, m.reference_pointer)
        index == r.address - 1
    IN  IF r.fault # "none" THEN Raise(m, r.fault)
        ELSE IF Len(m.input) = 0 THEN Raise(m, "StopIteration")
        ELSE LET consumed == [m EXCEPT !.input = Tail(m.input)]
             IN  IF ~PyInRange(m.runtime_stack, index) THEN Raise(consumed, "IndexError")
                 ELSE Return([consumed EXCEPT !.runtime_stack =
                                PySet(m.runtime_stack, index, Head(m.input))], << >>)

ExecREADI(m, address) ==
    LET r == resolve_address("LOKAL", address, m.reference_pointer)
        index == r.address - 1
    IN  IF r.fault # "none" THEN Raise(m, r.fault)
        ELSE IF Len(m.input) = 0 THEN Raise(m, "StopIteration")
        ELSE LET consumed == [m EXCEPT !.input = Tail(m.input)]
             IN  IF ~PyInRange(m.runtime_stack, index) THEN Raise(consumed, "IndexError")
                 ELSE LET inner == PyGet(m.runtime_stack, index) - 1
                      IN  IF ~PyInRange(m.runtime_stack, inner)
                          THEN Raise(consumed, "IndexError")
                          ELSE Return([consumed EXCEPT !.runtime_stack =
                                         PySet(m.runtime_stack, inner, Head(m.input))], << >>)

ExecPUSH(m) ==
    IF Len(m.stack) = 0 THEN Raise(m, "IndexError")
    ELSE Return([m EXCEPT !.stack = Pop(m.stack),
                          !.runtime_stack = Append(m.runtime_stack, Top(m.stack))], << >>)

\* CALL appending the frame pointer before the return address
ExecCALL_LinkFirst(m, target) ==
    Return([m EXCEPT !.runtime_stack =
                        m.runtime_stack \o << m.reference_pointer, m.counter + 1 >>,
                     !.counter = target - 1,
                     !.reference_pointer = Len(m.runtime_stack) + 2], << >>)

\* CALL pointing the frame at the return address instead of the saved link
ExecCALL_FrameAtReturn(m, target) ==
    Return([m EXCEPT !.runtime_stack =
                        m.runtime_stack \o << m.counter + 1, m.reference_pointer >>,
                     !.counter = target - 1,
                     !.reference_pointer = Len(m.runtime_stack) + 1], << >>)

\* CALL saving self.counter as the return address
ExecCALL_ReturnsToCall(m, target) ==
    Return([m EXCEPT !.runtime_stack =
                        m.runtime_stack \o << m.counter, m.reference_pointer >>,
                     !.counter = target - 1,
                     !.reference_pointer = Len(m.runtime_stack) + 2], << >>)

ExecCALL(m, target) ==
    Return([m EXCEPT !.runtime_stack =
                        m.runtime_stack \o << m.counter + 1, m.reference_pointer >>,
                     !.counter = target - 1,
                     !.reference_pointer = Len(m.runtime_stack) + 2], << >>)

ExecINIT(m, variables) ==
    Return([m EXCEPT !.runtime_stack = PyExtendZeros(m.runtime_stack, variables)], << >>)

\* the guard written reference_pointer > 0
RetGuard_Positive(m) == m.reference_pointer > 0

\* the guard of the first RET case
RetGuard(m) == m.reference_pointer > 1

\* a RET that removes one cell more
RetTruncate_OneMore(l, old_reference, parameters) ==
    PyDelFrom(l, old_reference - parameters - 3)

\* what del self.runtime_stack[old_reference - parameters - 2:] leaves
RetTruncate(l, old_reference, parameters) ==
    PyDelFrom(l, old_reference - parameters - 2)

\* the counter is assigned before the saved reference pointer is read: when
\* that read fails the counter keeps the value taken from the stack
ExecRET(m, parameters) ==
    IF ~RetGuard(m) THEN Raise(m, "LookupError: stack is too small to return")
    ELSE LET old_reference == m.reference_pointer
         IN  IF ~PyInRange(m.runtime_stack, old_reference - 2) THEN Raise(m, "IndexError")
             ELSE LET jumped == [m EXCEPT !.counter =
                                   PyGet(m.runtime_stack, old_reference - 2) - 1]
                  IN  IF ~PyInRange(m.runtime_stack, old_reference - 1)
                      THEN Raise(jumped, "IndexError")
                      ELSE Return([jumped EXCEPT
                                     !.reference_pointer =
                                        PyGet(m.runtime_stack, old_reference - 1),
                                     !.runtime_stack =
                                        RetTruncate(m.runtime_stack, old_reference, parameters)],
                                  << >>)

AM1Execute(m, i) ==
    CASE i.op \in BinaryOps -> ExecBinary(m, i.op)
      [] i.op = "LOAD"   -> ExecLOAD(m, i.ctx, i.payload)
      [] i.op = "LOADA"  -> ExecLOADA(m, i.ctx, i.payload)
      [] i.op = "LOADI"  -> ExecLOADI(m, i.payload)
      [] i.op = "STORE"  -> ExecSTORE(m, i.ctx, i.payload)
      [] i.op = "STOREI" -> ExecSTOREI(m, i.payload)
      [] i.op = "LIT"    -> ExecLIT(m, i.payload)
      [] i.op = "JMP"    -> ExecJMP(m, i.payload)
      [] i.op = "JMC"    -> ExecJMC(m, i.payload)
      [] i.op = "WRITE"  -> ExecWRITE(m, i.ctx, i.payload)
      [] i.op = "WRITEI" -> ExecWRITEI(m, i.payload)
      [] i.op = "READ"   -> ExecREAD(m, i.ctx, i.payload)
      [] i.op = "READI"  -> ExecREADI(m, i.payload)
      [] i.op = "PUSH"   -> ExecPUSH(m)
      [] i.op = "CALL"   -> ExecCALL(m, i.payload)
      [] i.op = "INIT"   -> ExecINIT(m, i.payload)
      [] i.op = "RET"    -> ExecRET(m, i.payload)
      [] OTHER           -> Raise(m, "ValueError: invalid instruction")


\* reset without self.reference_pointer = 0
AM1Reset_KeepsReference(m) == [m EXCEPT !.counter = 1, !.stack = << >>,
                                        !.runtime_stack = << >>]

\* am1.Machine.reset: the input iterator is not touched
AM1Reset(m) == [m EXCEPT !.counter = 1, !.stack = << >>,
                         !.runtime_stack = << >>, !.reference_pointer = 0]

\* a walk that yields the prefix beneath the outermost call only when it
\* is longer than two cells
RECURSIVE FramesWalk_LongPrefix(_, _, _, _, _)
FramesWalk_LongPrefix(l, previous_reference, reference, seen, slices) ==
    IF reference > 0
    THEN IF reference \in seen THEN [slices |-> slices, end |-> "endless"]
         ELSE LET out == Append(slices,
                                PySlice(l, reference - 2, previous_reference - 2))
              IN  IF ~PyInRange(l, reference - 1)
                  THEN [slices |-> out, end |-> "IndexError"]
                  ELSE FramesWalk_LongPrefix(l, reference, PyGet(l, reference - 1),
                                             seen \cup {reference}, out)
    ELSE IF previous_reference - 2 > 2
         THEN [slices |-> Append(slices, PySlice(l, 0, previous_reference - 2)),
               end |-> "done"]
         ELSE [slices |-> slices, end |-> "done"]

(***************************************************************************)
(* am1.Machine.frames, a generator.  The result holds the slices in the    *)
(* order they are yielded and how the generator ends: "done" (it returns), *)
(* "IndexError" (reading the saved reference pointer fails, after the      *)
(* slice of that frame was yielded) or "endless" (the walk came back to a  *)
(* reference pointer it had visited: the loop reads only the immutable     *)
(* runtime stack, so from there it repeats and yields for ever).           *)
(***************************************************************************)
RECURSIVE FramesWalk(_, _, _, _, _)
FramesWalk(l, previous_reference, reference, seen, slices) ==
    IF reference > 0
    THEN IF reference \in seen THEN [slices |-> slices, end |-> "endless"]
         ELSE LET out == Append(slices,
                                PySlice(l, reference - 2, previous_reference - 2))
              IN  IF ~PyInRange(l, reference - 1)
                  THEN [slices |-> out, end |-> "IndexError"]
                  ELSE FramesWalk(l, reference, PyGet(l, reference - 1),
                                  seen \cup {reference}, out)
    ELSE IF previous_reference > 2
         THEN [slices |-> Append(slices, PySlice(l, 0, previous_reference - 2)),
               end |-> "done"]
         ELSE [slices |-> slices, end |-> "done"]

\* frames with previous_reference = len(self.runtime_stack)
frames_ShortStart(m) == FramesWalk(m.runtime_stack, Len(m.runtime_stack),
                                   m.reference_pointer, {}, << >>)

frames(m) == FramesWalk(m.runtime_stack, Len(m.runtime_stack) + 2,
                        m.reference_pointer, {}, << >>)

(***************************************************************************)
(* am0.Instruction and am0.Machine.  An AM0 instruction is (op, payload),  *)
(* the machine is (counter, stack, memory, input).                         *)
(***************************************************************************)
AM0Names == << "ADD", "MUL", "SUB", "DIV", "MOD", "EQ", "NE", "LT", "GT",
               "LE", "GE", "LOAD", "STORE", "LIT", "JMP", "JMC", "WRITE", "READ" >>

AM0Value(op) == CHOOSE v \in 1 .. Len(AM0Names) : AM0Names[v] = op

AM0IsJump(op) == 14 < AM0Value(op) /\ AM0Value(op) < 17

AM0HasPayload(op) == AM0Value(op) > 11

\* binary operations that take their operands in the other order
AM0BinaryResult_Swapped(op, a, b) == BinaryResult(op, b, a)

AM0BinaryResult(op, a, b) ==
    CASE op = "ADD" -> a + b
      [] op = "MUL" -> a * b
      [] op = "SUB" -> a - b
      [] op = "DIV" -> PyFloorDiv(a, b)
      [] op = "MOD" -> PyMod(a, b)
      [] op = "EQ"  -> PyInt(a = b)
      [] op = "NE"  -> PyInt(a # b)
      [] op = "LT"  -> PyInt(a < b)
      [] op = "GT"  -> PyInt(a > b)
      [] op = "LE"  -> PyInt(a <= b)
      [] op = "GE"  -> PyInt(a >= b)

AM0ExecBinary(m, op) ==
    IF Len(m.stack) < 2 THEN Raise(m, "IndexError")
    ELSE LET a == m.stack[Len(m.stack) - 1]
             b == m.stack[Len(m.stack)]
         IN  IF op \in {"DIV", "MOD"} /\ b = 0 THEN Raise(m, "ZeroDivisionError")
             ELSE Return([m EXCEPT !.stack =
                            Append(SubSeq(m.stack, 1, Len(m.stack) - 2),
                                   AM0BinaryResult(op, a, b))], << >>)

\* d after d[k] = v
DictSet(d, k, v) == [x \in DOMAIN d \cup {k} |-> IF x = k THEN v ELSE d[x]]

AM0ExecLOAD(m, address) ==
    IF address \notin DOMAIN m.memory THEN Raise(m, "KeyError")
    ELSE Return([m EXCEPT !.stack = Append(m.stack, m.memory[address])], << >>)

AM0ExecSTORE(m, address) ==
    IF Len(m.stack) = 0 THEN Raise(m, "IndexError")
    ELSE Return([m EXCEPT !.stack = Pop(m.stack),
                          !.memory = DictSet(m.memory, address, Top(m.stack))], << >>)

AM0ExecWRITE(m, address) ==
    IF address \notin DOMAIN m.memory THEN Raise(m, "KeyError")
    ELSE Return(m, << m.memory[address] >>)

AM0ExecREAD(m, address) ==
    IF Len(m.input) = 0 THEN Raise(m, "StopIteration")
    ELSE Return([m EXCEPT !.input = Tail(m.input),
                          !.memory = DictSet(m.memory, address, Head(m.input))], << >>)

AM0ExecLIT(m, literal) == Return([m EXCEPT !.stack = Append(m.stack, literal)], << >>)

AM0ExecJMP(m, target) == Return([m EXCEPT !.counter = target - 1], << >>)

\* a conditional jump that tests the top operand and leaves it on the stack
AM0ExecJMC_KeepsOperand(m, target) ==
    IF Len(m.stack) = 0 THEN Raise(m, "IndexError")
    ELSE IF Top(m.stack) = 0
         THEN Return([m EXCEPT !.counter = target - 1], << >>)
         ELSE Return(m, << >>)

AM0ExecJMC(m, target) ==
    IF Len(m.stack) = 0 THEN Raise(m, "IndexError")
    ELSE LET popped == [m EXCEPT !.stack = Pop(m.stack)]
         IN  IF Top(m.stack) = 0
             THEN Return([popped EXCEPT !.counter = target - 1], << >>)
             ELSE Return(popped, << >>)

AM0Execute(m, i) ==
    CASE i.op \in BinaryOps -> AM0ExecBinary(m, i.op)
      [] i.op = "LOAD"  -> AM0ExecLOAD(m, i.payload)
      [] i.op = "STORE" -> AM0ExecSTORE(m, i.payload)
      [] i.op = "LIT"   -> AM0ExecLIT(m, i.payload)
      [] i.op = "JMP"   -> AM0ExecJMP(m, i.payload)
      [] i.op = "JMC"   -> AM0ExecJMC(m, i.payload)
      [] i.op = "WRITE" -> AM0ExecWRITE(m, i.payload)
      [] i.op = "READ"  -> AM0ExecREAD(m, i.payload)
      [] OTHER          -> Raise(m, "ValueError: invalid instruction")

\* the insertion order of a dict: the keys it keeps stay where they are, a
\* new key goes to the end (each operation adds at most one key)
KeyOrder(order, d) ==
    LET kept == SelectSeq(order, LAMBDA k : k \in DOMAIN d)
        new == DOMAIN d \ {order[n] : n \in DOMAIN order}
    IN  IF new = {} THEN kept ELSE Append(kept, CHOOSE k \in new : TRUE)

\* am0.Machine.reset
AM0Reset(m) == [m EXCEPT !.counter = 1, !.stack = << >>, !.memory = << >>]

(***************************************************************************)
(* The machine as one value, and the state it is in after default().       *)
(***************************************************************************)
AM1Self == [counter |-> counter, stack |-> stack, runtime_stack |-> runtime_stack,
            reference_pointer |-> reference_pointer, input |-> input]

AM0Self == [counter |-> counter, stack |-> stack, memory |-> memory, input |-> input]

NoInstr == [op |-> "none", payload |-> 0]

\* Machine.default(input): cls(1, [], [], 0, input) and cls(1, [], {}, input)
Default(k, in) ==
    /\ kind = k
    /\ counter = 1
    /\ stack = << >>
    /\ runtime_stack = << >>
    /\ reference_pointer = 0
    /\ memory = << >>
    /\ keys = << >>
    /\ input = in

IsDefault ==
    /\ counter = 1
    /\ stack = << >>
    /\ runtime_stack = << >>
    /\ reference_pointer = 0
    /\ memory = << >>
    /\ keys = << >>

(***************************************************************************)
(* The values the model draws from, and the guard that keeps it finite.    *)
(***************************************************************************)
SeqsUpTo(S, n) == UNION {[1 .. k -> S] : k \in 0 .. n}

\* the input source of Spec: the values 1, 2, ..., MaxInput
InputSource == [k \in 1 .. MaxInput |-> k]

\* the instructions Instruction.parse gives for the lines NAME, NAME payload
\* and, for the opcodes that take a context, NAME(context,payload)
AM1Instructions ==
    {[op |-> o, ctx |-> c, payload |-> p] :
        o \in {"LOAD", "LOADA", "STORE", "READ", "WRITE"},
        c \in MemoryContext, p \in Val}
    \cup {[op |-> o, ctx |-> "LOKAL", payload |-> p] :
        o \in {"LOADI", "STOREI", "LIT", "JMP", "JMC", "WRITEI", "READI",
               "CALL", "INIT", "RET"}, p \in Val}
    \cup {[op |-> o, ctx |-> "LOKAL", payload |-> 0] : o \in BinaryOps \cup {"PUSH"}}

AM0Instructions ==
    {[op |-> o, payload |-> p] :
        o \in {"LOAD", "STORE", "LIT", "JMP", "JMC", "WRITE", "READ"}, p \in Val}
    \cup {[op |-> o, payload |-> 0] : o \in BinaryOps}

AllIn(s, S) == \A k \in 1 .. Len(s) : s[k] \in S

AM1InBounds(m) ==
    /\ m.counter \in Val
    /\ m.reference_pointer \in Val
    /\ Len(m.stack) <= MaxStack
    /\ Len(m.runtime_stack) <= MaxRS
    /\ Len(m.stack) + Len(m.runtime_stack) <= MaxCells
    /\ AllIn(m.stack, Val)
    /\ AllIn(m.runtime_stack, Val)

AM0InBounds(m) ==
    /\ m.counter \in Val
    /\ Len(m.stack) <= MaxStack
    /\ AllIn(m.stack, Val)
    /\ DOMAIN m.memory \subseteq 1 .. MaxMem
    /\ \A k \in DOMAIN m.memory : m.memory[k] \in Val

(***************************************************************************)
(* Spec: a caller (the REPL's command loop, a test) drives one machine     *)
(* from its default state through execute_instruction, reset and frames,   *)
(* in any order.  After each call the caller holds what the call gave      *)
(* (instr, fault, value, yielded) and the machine it began with (pre);     *)
(* going back to its prompt it drops them.                                 *)
(***************************************************************************)
\* no text has been handed to the parser
NoText == source = << >> /\ parsed = << >>

DriverIdle == program = << >> /\ pc = "none" /\ outputs = << >>

NoCall ==
    /\ instr = NoInstr
    /\ fault = "none"
    /\ value = << >>
    /\ yielded = << >>
    /\ pre = << >>
    /\ stdout = << >>

Init ==
    /\ \E k \in {"AM0", "AM1"} : Default(k, InputSource)
    /\ given = InputSource
    /\ NoCall
    /\ NoText
    /\ phase = "ready"
    /\ DriverIdle

\* machine.execute_instruction(i) on the AM1 machine
AM1Apply(i) ==
    LET r == AM1Execute(AM1Self, i)
    IN  /\ counter' = r.m.counter
        /\ stack' = r.m.stack
        /\ runtime_stack' = r.m.runtime_stack
        /\ reference_pointer' = r.m.reference_pointer
        /\ input' = r.m.input
        /\ instr' = i
        /\ fault' = r.fault
        /\ value' = r.value
        /\ UNCHANGED << memory, keys >>

\* the same within the bounds of Spec, the caller keeping the machine as it was
AM1Step(i) ==
    /\ AM1InBounds(AM1Execute(AM1Self, i).m)
    /\ AM1Apply(i)
    /\ pre' = AM1Self

\* machine.execute_instruction(i) on the AM0 machine
AM0Apply(i) ==
    LET r == AM0Execute(AM0Self, i)
    IN  /\ counter' = r.m.counter
        /\ stack' = r.m.stack
        /\ memory' = r.m.memory
        /\ keys' = KeyOrder(keys, r.m.memory)
        /\ input' = r.m.input
        /\ instr' = i
        /\ fault' = r.fault
        /\ value' = r.value
        /\ UNCHANGED << runtime_stack, reference_pointer >>

AM0Step(i) ==
    /\ AM0InBounds(AM0Execute(AM0Self, i).m)
    /\ AM0Apply(i)
    /\ pre' = AM0Self

AM1ExecuteInstruction ==
    /\ kind = "AM1"
    /\ phase = "ready"
    /\ \E i \in AM1Instructions : AM1Step(i)
    /\ phase' = "called"
    /\ UNCHANGED << stdout, source, parsed, kind, given, yielded, program, pc, outputs >>

AM0ExecuteInstruction ==
    /\ kind = "AM0"
    /\ phase = "ready"
    /\ \E i \in AM0Instructions : AM0Step(i)
    /\ phase' = "called"
    /\ UNCHANGED << stdout, source, parsed, kind, given, yielded, program, pc, outputs >>

AM1DoReset ==
    /\ kind = "AM1"
    /\ phase = "ready"
    /\ LET m == AM1Reset(AM1Self)
       IN  /\ counter' = m.counter
           /\ stack' = m.stack
           /\ runtime_stack' = m.runtime_stack
           /\ reference_pointer' = m.reference_pointer
           /\ input' = m.input
    /\ instr' = [op |-> "reset", payload |-> 0]
    /\ pre' = AM1Self
    /\ phase' = "called"
    /\ UNCHANGED << stdout, keys, source, parsed, kind, given, memory, fault, value, yielded, program, pc, outputs >>

AM0DoReset ==
    /\ kind = "AM0"
    /\ phase = "ready"
    /\ LET m == AM0Reset(AM0Self)
       IN  /\ counter' = m.counter
           /\ stack' = m.stack
           /\ memory' = m.memory
           /\ keys' = KeyOrder(keys, m.memory)
           /\ input' = m.input
    /\ instr' = [op |-> "reset", payload |-> 0]
    /\ pre' = AM0Self
    /\ phase' = "called"
    /\ UNCHANGED << stdout, source, parsed, kind, given, runtime_stack, reference_pointer, fault, value,
                    yielded, program, pc, outputs >>

\* list(machine.frames()), or as far as the generator gets
DoFrames ==
    /\ kind = "AM1"
    /\ phase = "ready"
    /\ yielded' = << frames(AM1Self) >>
    /\ instr' = [op |-> "frames", payload |-> 0]
    /\ pre' = AM1Self
    /\ phase' = "called"
    /\ UNCHANGED << stdout, keys, source, parsed, kind, counter, stack, runtime_stack, reference_pointer,
                    memory, given, input, fault, value, program, pc, outputs >>

\* back to the prompt: the caller keeps the machine and nothing else
Prompt ==
    /\ phase = "called"
    /\ instr' = NoInstr
    /\ fault' = "none"
    /\ value' = << >>
    /\ yielded' = << >>
    /\ pre' = << >>
    /\ phase' = "ready"
    /\ UNCHANGED << stdout, keys, source, parsed, kind, counter, stack, runtime_stack, reference_pointer,
                    memory, given, input, program, pc, outputs >>

Next ==
    \/ AM1ExecuteInstruction
    \/ AM0ExecuteInstruction
    \/ AM1DoReset
    \/ AM0DoReset
    \/ DoFrames
    \/ Prompt

Spec == Init /\ [][Next]_vars


(***************************************************************************)
(* Claims checked under Spec.  In a "called" state the caller holds the    *)
(* instruction it executed, the machine before (pre) and the machine       *)
(* after (the variables).                                                  *)
(***************************************************************************)
AM1Opcodes == {AM1Names[v] : v \in 1 .. Len(AM1Names)}
AM0Opcodes == {AM0Names[v] : v \in 1 .. Len(AM0Names)}

\* the last step was execute_instruction on the given machine
Executed(k) ==
    /\ kind = k
    /\ phase = "called"
    /\ instr.op \in (IF k = "AM1" THEN AM1Opcodes ELSE AM0Opcodes)

\* counter, operand stack, runtime stack / memory and frame pointer are as
\* they were when the step began
CoreUnchanged ==
    /\ counter = pre.counter
    /\ stack = pre.stack
    /\ kind = "AM1" => /\ runtime_stack = pre.runtime_stack
                       /\ reference_pointer = pre.reference_pointer
    /\ kind = "AM0" => memory = pre.memory

\* C2: whenever execute_instruction raises a fault, on AM1 or AM0, counter,
\* operand stack, runtime stack / memory and frame pointer are what they
\* were before the instruction started.
C2_FaultLeavesNoEffect ==
    ((Executed("AM1") \/ Executed("AM0")) /\ fault # "none") => CoreUnchanged

\* the address resolve_address is to return for the executed instruction
C3_Expected ==
    IF instr.op \in {"LOAD", "LOADA", "WRITE", "READ"} /\ instr.ctx = "GLOBAL"
    THEN instr.payload
    ELSE instr.payload + pre.reference_pointer

\* C3: GLOBAL resolves to a and LOKAL to a + fp; the address fault is raised
\* exactly when that result is <= 0, never because the result is beyond the
\* runtime stack.  Checked on the opcodes whose first statement is the call
\* of resolve_address; LOADA pushes the resolved address itself.
C3_ResolveAddress ==
    (Executed("AM1") /\ instr.op \in {"LOAD", "LOADA", "LOADI", "STOREI",
                                      "WRITE", "WRITEI", "READ", "READI"})
    => /\ fault = "ValueError: address" <=> C3_Expected <= 0
       /\ instr.op = "LOADA" =>
            /\ fault = "none" <=> C3_Expected > 0
            /\ fault = "none" => stack = Append(pre.stack, C3_Expected)

\* a LOADA of an address beyond the runtime stack returned that address
C3_Witness ==
    /\ Executed("AM1")
    /\ instr.op = "LOADA"
    /\ instr.ctx = "LOKAL"
    /\ pre.reference_pointer > 0
    /\ fault = "none"
    /\ Top(stack) > Len(runtime_stack)

\* C4: RET with frame pointer <= 1 raises the underflow fault for every
\* payload and leaves the whole machine unchanged; RET with frame pointer
\* > 1 never raises that fault.
C4_RetUnderflow ==
    (Executed("AM1") /\ instr.op = "RET")
    => IF pre.reference_pointer <= 1
       THEN /\ fault = "LookupError: stack is too small to return"
            /\ AM1Self = pre
       ELSE fault # "LookupError: stack is too small to return"

\* RET faulted with frame pointer 1 on a machine that is not in its default state
C4_Witness ==
    /\ Executed("AM1")
    /\ instr.op = "RET"
    /\ pre.reference_pointer = 1
    /\ pre.runtime_stack # << >>
    /\ fault = "LookupError: stack is too small to return"

\* C7: reset yields the default state from any state, keeps the input
\* source and its position, and a second reset changes nothing.
C7_Reset ==
    (phase = "called" /\ instr.op = "reset")
    => /\ IsDefault
       /\ input = pre.input
       /\ kind = "AM1" => AM1Reset(AM1Self) = AM1Self
       /\ kind = "AM0" => AM0Reset(AM0Self) = AM0Self

\* reset was applied to a machine whose frame pointer points beyond its
\* runtime stack and whose input is partly consumed
C7_Witness ==
    /\ phase = "called"
    /\ instr.op = "reset"
    /\ kind = "AM1"
    /\ pre.reference_pointer > Len(pre.runtime_stack)
    /\ pre.stack # << >>
    /\ pre.counter # 1

\* C9: frames() yields a finite sequence and raises no fault in every state
\* reachable from the default state.
C9_FramesFinite ==
    (phase = "called" /\ instr.op = "frames") => yielded[1].end = "done"

\* C10: is_jump() is true exactly for JMP, JMC, CALL, RET (AM1) and JMP, JMC
\* (AM0), and every non-faulting execution of an opcode that is no jump
\* ends with counter = old counter + 1.
C10_IsJump ==
    /\ Executed("AM1") =>
          /\ AM1IsJump(instr.op) <=> instr.op \in {"JMP", "JMC", "CALL", "RET"}
          /\ (fault = "none" /\ ~AM1IsJump(instr.op)) => counter = pre.counter + 1
    /\ Executed("AM0") =>
          /\ AM0IsJump(instr.op) <=> instr.op \in {"JMP", "JMC"}
          /\ (fault = "none" /\ ~AM0IsJump(instr.op)) => counter = pre.counter + 1

\* a STORE, which is no jump, executed without a fault
C10_Witness ==
    /\ Executed("AM1")
    /\ instr.op = "STORE"
    /\ ~AM1IsJump(instr.op)
    /\ fault = "none"
    /\ counter = pre.counter + 1


(***************************************************************************)
(* SpecFrames: frames() on a machine built by the constructor              *)
(* Machine(counter, stack, runtime_stack, reference_pointer, input), which *)
(* takes any values (test_frames builds its machines this way).            *)
(***************************************************************************)
FrameCells == (0 - 1) .. MaxFrameStack

InitFrames ==
    /\ kind = "AM1"
    /\ counter = 1
    /\ stack = << >>
    /\ runtime_stack \in SeqsUpTo(FrameCells, MaxFrameStack)
    /\ reference_pointer \in (0 - 1) .. (MaxFrameStack + 1)
    /\ memory = << >>
    /\ keys = << >>
    /\ given = << >>
    /\ input = << >>
    /\ NoCall
    /\ NoText
    /\ phase = "ready"
    /\ DriverIdle

NextFrames ==
    \/ DoFrames
    \/ Prompt

SpecFrames == InitFrames /\ [][NextFrames]_vars

\* the saved-link chain from frame pointer fp: the frame pointers of the
\* active calls, most recent first (only used where the chain descends)
RECURSIVE LinkChain(_, _)
LinkChain(l, fp) ==
    IF fp >= 1 /\ fp <= Len(l) /\ l[fp] < fp
    THEN << fp >> \o LinkChain(l, l[fp])
    ELSE << >>

\* the chain is intact when every saved frame pointer is smaller than the
\* frame pointer it is stored under by at least gap, and the chain ends at 0
RECURSIVE ChainIntact(_, _, _)
ChainIntact(l, fp, gap) ==
    \/ fp = 0
    \/ /\ fp >= 1
       /\ fp <= Len(l)
       /\ l[fp] <= fp - gap
       /\ ChainIntact(l, l[fp], gap)

RECURSIVE ConcatReversed(_)
ConcatReversed(ss) ==
    IF ss = << >> THEN << >>
    ELSE ConcatReversed(Tail(ss)) \o Head(ss)

\* what C8 says of the slices frames() yielded for the machine pre
FramesPartition ==
    LET l == pre.runtime_stack
        chain == LinkChain(l, pre.reference_pointer)
        n == Len(chain)
        below == IF n = 0 THEN Len(l) ELSE chain[n] - 2
        got == yielded[1]
    IN  /\ got.end = "done"
        /\ Len(got.slices) = n + (IF below > 0 THEN 1 ELSE 0)
        /\ \A k \in 1 .. n :
              /\ Len(got.slices[k]) >= 2
              /\ got.slices[k][1] = l[chain[k] - 1]
              /\ got.slices[k][2] = l[chain[k]]
        /\ below > 0 => got.slices[n + 1] = SubSeq(l, 1, below)
        /\ ConcatReversed(got.slices) = l
        /\ (l = << >> /\ pre.reference_pointer = 0) => got.slices = << >>
        /\ AM1Self = pre

\* C8 as stated: in any state whose saved-link chain is intact (each saved
\* frame pointer smaller than the frame pointer it is stored under, ending
\* at 0), frames() yields one slice per active call, most recent first, each
\* beginning with the call's (return address, saved frame pointer) pair,
\* then the non-empty prefix beneath the outermost call; the slices
\* concatenated in reverse order are the runtime stack; the default state
\* yields nothing; no machine state changes.
C8_FramesPartitionAsStated ==
    (phase = "called" /\ instr.op = "frames"
        /\ ChainIntact(pre.runtime_stack, pre.reference_pointer, 1))
    => FramesPartition

\* C8, amended: the same, for the states in which each saved frame pointer
\* is smaller by at least 2 than the frame pointer it is stored under (the
\* link pair of a call lies wholly above the link pair of its caller, as
\* CALL leaves it).
C8_FramesPartition ==
    (phase = "called" /\ instr.op = "frames"
        /\ ChainIntact(pre.runtime_stack, pre.reference_pointer, 2))
    => FramesPartition

\* frames() ran on two nested calls above a non-empty prefix
C8_Witness ==
    /\ phase = "called"
    /\ instr.op = "frames"
    /\ ChainIntact(pre.runtime_stack, pre.reference_pointer, 2)
    /\ Len(LinkChain(pre.runtime_stack, pre.reference_pointer)) = 2
    /\ Len(yielded[1].slices) = 3


(***************************************************************************)
(* SpecCall: the call protocol.  A machine built by the constructor, in    *)
(* any state, executes CALL n, then a callee body of INIT instructions,    *)
(* then RET p.  pre keeps the machine as it was before the CALL.           *)
(***************************************************************************)
I(o, c, p) == [op |-> o, ctx |-> c, payload |-> p]

InitCall ==
    /\ kind = "AM1"
    /\ counter \in Val
    /\ stack \in SeqsUpTo(Val, 1)
    /\ runtime_stack \in SeqsUpTo(Val, MaxRS)
    /\ reference_pointer \in Val
    /\ memory = << >>
    /\ keys = << >>
    /\ given = InputSource
    /\ input = InputSource
    /\ NoCall
    /\ NoText
    /\ phase = "caller"
    /\ DriverIdle

CallerCalls ==
    /\ phase = "caller"
    /\ \E n \in Val : AM1Apply(I("CALL", "LOKAL", n))
    /\ pre' = AM1Self
    /\ phase' = "callee"
    /\ UNCHANGED << stdout, source, parsed, kind, given, yielded, program, pc, outputs >>

CalleeInits ==
    /\ phase = "callee"
    /\ \E k \in (0 - 1) .. MaxLocals :
          /\ Len(runtime_stack) + k <= Len(pre.runtime_stack) + 2 + MaxLocals
          /\ counter < MaxVal + MaxLocals
          /\ AM1Apply(I("INIT", "LOKAL", k))
    /\ UNCHANGED << stdout, source, parsed, kind, given, yielded, program, pc, outputs, pre, phase >>

CalleeReturns ==
    /\ phase = "callee"
    /\ \E p \in 0 .. (MaxRS + 1) : AM1Apply(I("RET", "LOKAL", p))
    /\ phase' = "returned"
    /\ UNCHANGED << stdout, source, parsed, kind, given, yielded, program, pc, outputs, pre >>

NextCall ==
    \/ CallerCalls
    \/ CalleeInits
    \/ CalleeReturns

SpecCall == InitCall /\ [][NextCall]_vars

\* C1: from counter c, frame pointer f and a runtime stack of length L,
\* CALL n; INIT ...; RET p leaves counter = c + 1, frame pointer = f and the
\* runtime stack equal to its first L - p elements, for every p >= 0.
C1_CallRetRoundTrip ==
    phase = "returned"
    => /\ fault = "none"
       /\ counter = pre.counter + 1
       /\ reference_pointer = pre.reference_pointer
       /\ runtime_stack =
             SubSeq(pre.runtime_stack, 1, Len(pre.runtime_stack) - instr.payload)
       /\ stack = pre.stack

\* the part of C1 the code keeps: the same for 0 <= p <= L
C1_RoundTripWithinStack ==
    (phase = "returned" /\ instr.payload <= Len(pre.runtime_stack))
    => /\ fault = "none"
       /\ counter = pre.counter + 1
       /\ reference_pointer = pre.reference_pointer
       /\ runtime_stack =
             SubSeq(pre.runtime_stack, 1, Len(pre.runtime_stack) - instr.payload)
       /\ stack = pre.stack

(***************************************************************************)
(* SpecRun: AbstractMachine.execute_program on a machine in its default    *)
(* state, the caller pulling every value of the generator                  *)
(* (list(machine.execute_program(program))).                               *)
(***************************************************************************)
\* tuple(Instruction.parse_program(EXAMPLE_PROGRAM1)) of tests/test_am1.py
EXAMPLE_PROGRAM1 ==
    << I("INIT", "LOKAL", 2),
       I("CALL", "LOKAL", 24),
       I("JMP", "LOKAL", 0),
       I("INIT", "LOKAL", 0),
       I("LOAD", "LOKAL", 0 - 3),
       I("LIT", "LOKAL", 0),
       I("GT", "LOKAL", 0),
       I("JMC", "LOKAL", 21),
       I("LOAD", "LOKAL", 0 - 3),
       I("LIT", "LOKAL", 1),
       I("SUB", "LOKAL", 0),
       I("PUSH", "LOKAL", 0),
       I("LOAD", "LOKAL", 0 - 2),
       I("PUSH", "LOKAL", 0),
       I("CALL", "LOKAL", 4),
       I("LOADI", "LOKAL", 0 - 2),
       I("LIT", "LOKAL", 2),
       I("ADD", "LOKAL", 0),
       I("STOREI", "LOKAL", 0 - 2),
       I("JMP", "LOKAL", 23),
       I("LIT", "LOKAL", 0),
       I("STOREI", "LOKAL", 0 - 2),
       I("RET", "LOKAL", 2),
       I("INIT", "LOKAL", 0),
       I("READ", "GLOBAL", 1),
       I("LOAD", "GLOBAL", 1),
       I("PUSH", "LOKAL", 0),
       I("LOADA", "GLOBAL", 2),
       I("PUSH", "LOKAL", 0),
       I("CALL", "LOKAL", 4),
       I("WRITE", "GLOBAL", 2),
       I("RET", "LOKAL", 0) >>

\* the instructions of the short programs: jumps into, before and past the
\* program, a call and a return, operand and runtime stack traffic, I/O
RunInstructions ==
    {I("JMP", "LOKAL", t) : t \in {0, 1, MaxProgram + 2}}
    \cup {I("JMC", "LOKAL", t) : t \in {0 - 1, MaxProgram}}
    \cup {I("LIT", "LOKAL", v) : v \in {0, 1}}
    \cup {I("CALL", "LOKAL", MaxProgram), I("RET", "LOKAL", 0),
          I("PUSH", "LOKAL", 0), I("ADD", "LOKAL", 0),
          I("READ", "GLOBAL", 1), I("WRITE", "GLOBAL", 1)}

Programs == SeqsUpTo(RunInstructions, MaxProgram) \cup {EXAMPLE_PROGRAM1}

\* the input sources: none, or n followed by one more value
RunInputs == {<< >>} \cup {<< n, n + 1 >> : n \in 0 .. MaxN}

InitRun ==
    /\ \E in \in RunInputs : Default("AM1", in) /\ given = in
    /\ program \in Programs
    /\ pc = "start"
    /\ outputs = << >>
    /\ NoCall
    /\ NoText
    /\ phase = "ready"

\* the loop condition 0 < self.counter <= len(program), with no lower bound
InProgram_NoLowerBound(c, prog) == c <= Len(prog)

\* the loop condition 0 < self.counter <= len(program)
InProgram(c, prog) == 0 < c /\ c <= Len(prog)

\* a generator that yields only the outputs, not None
Yield_OutputsOnly(pulled, v) == IF v = << >> THEN pulled ELSE Append(pulled, v)

\* yield: the caller, who holds the values pulled, gets one more
Yield(pulled, v) == Append(pulled, v)

\* a start that puts the stacks and the frame pointer back as reset() does
RunStart_ResetsMachine ==
    /\ pc = "start"
    /\ counter' = 1
    /\ stack' = << >>
    /\ runtime_stack' = << >>
    /\ reference_pointer' = 0
    /\ pc' = "loop"
    /\ UNCHANGED << stdout, keys, source, parsed, kind, memory, given,
                    input, instr, fault, value, yielded, program, outputs, pre, phase >>

\* self.counter = 1, on the first next() of the generator
RunStart ==
    /\ pc = "start"
    /\ counter' = 1
    /\ pc' = "loop"
    /\ UNCHANGED << stdout, keys, source, parsed, kind, stack, runtime_stack, reference_pointer, memory, given,
                    input, instr, fault, value, yielded, program, outputs, pre, phase >>

\* yield self.execute_instruction(program[self.counter - 1]); an exception
\* ends the generator
RunStep ==
    /\ pc = "loop"
    /\ InProgram(counter, program)
    /\ Len(outputs) < MaxSteps
    /\ AM1Apply(PyGet(program, counter - 1))
    /\ pre' = AM1Self
    /\ outputs' = IF fault' = "none" THEN Yield(outputs, value') ELSE outputs
    /\ pc' = IF fault' = "none" THEN "loop" ELSE "fault"
    /\ UNCHANGED << stdout, source, parsed, kind, given, yielded, program, phase >>

\* the loop condition fails: the generator returns
RunStop ==
    /\ pc = "loop"
    /\ ~InProgram(counter, program)
    /\ pc' = "done"
    /\ UNCHANGED << stdout, keys, source, parsed, kind, counter, stack, runtime_stack, reference_pointer, memory,
                    given, input, instr, fault, value, yielded, program, outputs,
                    pre, phase >>

NextRun ==
    \/ RunStart
    \/ RunStep
    \/ RunStop

SpecRun == InitRun /\ [][NextRun]_vars

\* the caller has pulled a value: the last step executed an instruction
Pulled == pc \in {"loop", "fault", "done"} /\ instr # NoInstr

\* C5: execute_program sets counter to 1 and executes an instruction only
\* while 1 <= counter <= len(program), always the one at index counter as
\* the previous instruction left it; it stops without a fault once counter
\* leaves that range, so it finishes with counter outside [1, len(program)];
\* on an empty program it executes nothing and leaves counter = 1.
C5_ExecuteProgram ==
    /\ (pc = "loop" /\ instr = NoInstr) => (counter = 1 /\ outputs = << >>)
    /\ Pulled => /\ 1 <= pre.counter
                 /\ pre.counter <= Len(program)
                 /\ instr = program[pre.counter]
    /\ (pc = "loop" /\ Pulled) => AM1Execute(pre, instr).m = AM1Self
    /\ pc = "done" => /\ fault = "none"
                      /\ ~(1 <= counter /\ counter <= Len(program))
    /\ (pc = "done" /\ program = << >>) =>
          /\ counter = 1
          /\ outputs = << >>
          /\ instr = NoInstr

\* a program of two instructions ended by JMP 0, with counter 0
C5_Witness ==
    /\ pc = "done"
    /\ Len(program) = 2
    /\ instr = I("JMP", "LOKAL", 0)
    /\ pre.counter = 2
    /\ counter = 0

\* C6: EXAMPLE_PROGRAM1, run from the default state with first input value
\* n >= 0, ends without a fault after exactly 20 + 18*n instructions, yields
\* one output, 2*n, third from last, consumes one input value and ends with
\* counter 0, empty operand stack, frame pointer 0 and runtime stack [n, 2*n].
C6_ExampleProgram1 ==
    (program = EXAMPLE_PROGRAM1 /\ given # << >>)
    => LET n == given[1]
           steps == 20 + 18 * n
       IN  /\ pc # "fault"
           /\ Len(outputs) <= steps
           /\ (pc = "loop" /\ Len(outputs) = steps) => ~InProgram(counter, program)
           /\ pc = "done" =>
                /\ Len(outputs) = steps
                /\ \A k \in 1 .. steps :
                      outputs[k] = IF k = steps - 2 THEN << 2 * n >> ELSE << >>
                /\ input = Tail(given)
                /\ counter = 0
                /\ stack = << >>
                /\ reference_pointer = 0
                /\ runtime_stack = << n, 2 * n >>

\* the run on the largest first input has finished
C6_Witness ==
    /\ program = EXAMPLE_PROGRAM1
    /\ pc = "done"
    /\ given # << >>
    /\ given[1] = MaxN
    /\ runtime_stack = << MaxN, 2 * MaxN >>

(***************************************************************************)
(* Further claims checked under Spec.                                      *)
(***************************************************************************)
\* what a step may leave alone besides counter and operand stack: runtime
\* stack and frame pointer (AM1), memory (AM0), the input, and no output
RestUnchanged ==
    /\ input = pre.input
    /\ value = << >>
    /\ kind = "AM1" => /\ runtime_stack = pre.runtime_stack
                       /\ reference_pointer = pre.reference_pointer
    /\ kind = "AM0" => memory = pre.memory

\* C11: JMP n ends with counter = n and changes nothing else; JMC n pops
\* exactly one operand and ends with counter = n if the popped value is 0
\* and with counter = old counter + 1 otherwise, changing nothing else (on
\* an empty operand stack there is nothing to pop: it faults, changing
\* nothing).
C11_Jumps ==
    \A k \in {"AM0", "AM1"} :
       /\ (Executed(k) /\ instr.op = "JMP")
          => /\ fault = "none"
             /\ counter = instr.payload
             /\ stack = pre.stack
             /\ RestUnchanged
       /\ (Executed(k) /\ instr.op = "JMC")
          => /\ fault = "none" <=> pre.stack # << >>
             /\ fault = "none"
                => /\ stack = SubSeq(pre.stack, 1, Len(pre.stack) - 1)
                   /\ counter = IF pre.stack[Len(pre.stack)] = 0
                                THEN instr.payload
                                ELSE pre.counter + 1
             /\ fault # "none" => (counter = pre.counter /\ stack = pre.stack)
             /\ RestUnchanged

\* JMC popped a 0 off a stack of two operands and jumped backwards
C11_Witness ==
    /\ Executed("AM1")
    /\ instr.op = "JMC"
    /\ Len(pre.stack) = 2
    /\ pre.stack[2] = 0
    /\ pre.stack[1] # 0
    /\ instr.payload < pre.counter
    /\ counter = instr.payload
    /\ stack = << pre.stack[1] >>

\* the address LOAD, STORE, WRITE, READ (context from the instruction) and
\* LOADI, STOREI, WRITEI, READI (always local) resolve for the machine pre
C12_Resolved ==
    IF instr.op \in {"LOAD", "STORE", "WRITE", "READ"} /\ instr.ctx = "GLOBAL"
    THEN instr.payload
    ELSE instr.payload + pre.reference_pointer

\* C12: every AM1 runtime-stack access outside the current bounds faults:
\* LOAD, STORE, WRITE and READ fault when the resolved address exceeds the
\* runtime stack length, and LOADI, STOREI, WRITEI and READI fault whenever
\* the pointer stored in the resolved local cell is not in
\* 1..length(runtime stack), pointers 0 and negative ones included.
C12_OutOfBoundsFaults ==
    LET len == Len(pre.runtime_stack)
    IN  /\ (Executed("AM1") /\ instr.op \in {"LOAD", "STORE", "WRITE", "READ"}
               /\ C12_Resolved > len)
           => fault # "none"
        /\ (Executed("AM1") /\ instr.op \in {"LOADI", "STOREI", "WRITEI", "READI"}
               /\ C12_Resolved \in 1 .. len
               /\ pre.runtime_stack[C12_Resolved] \notin 1 .. len)
           => fault # "none"

(***************************************************************************)
(* SpecArith: the arithmetic opcodes as functions of the operand stack.    *)
(* A machine of either kind, built by the constructor with any operand     *)
(* stack of up to MaxDepth integers of either sign, executes one of ADD,   *)
(* MUL, SUB, DIV, MOD.                                                     *)
(***************************************************************************)
Operands == (0 - MaxOperand) .. MaxOperand

ArithOps == {"ADD", "MUL", "SUB", "DIV", "MOD"}

InitArith ==
    /\ kind \in {"AM0", "AM1"}
    /\ counter = 1
    /\ stack \in SeqsUpTo(Operands, MaxDepth)
    /\ runtime_stack = << >>
    /\ reference_pointer = 0
    /\ memory = << >>
    /\ keys = << >>
    /\ given = << >>
    /\ input = << >>
    /\ NoCall
    /\ NoText
    /\ phase = "ready"
    /\ DriverIdle

AM1Arith ==
    /\ kind = "AM1"
    /\ phase = "ready"
    /\ \E op \in ArithOps : AM1Apply(I(op, "LOKAL", 0))
    /\ pre' = AM1Self
    /\ phase' = "called"
    /\ UNCHANGED << stdout, source, parsed, kind, given, yielded, program, pc, outputs >>

AM0Arith ==
    /\ kind = "AM0"
    /\ phase = "ready"
    /\ \E op \in ArithOps : AM0Apply([op |-> op, payload |-> 0])
    /\ pre' = AM0Self
    /\ phase' = "called"
    /\ UNCHANGED << stdout, source, parsed, kind, given, yielded, program, pc, outputs >>

NextArith ==
    \/ AM1Arith
    \/ AM0Arith

SpecArith == InitArith /\ [][NextArith]_vars

\* q is floor(a / b): the largest integer with q * b <= a when b > 0, and
\* the largest with q * b >= a when b < 0
IsFloorQuotient(q, a, b) ==
    IF b > 0 THEN q * b <= a /\ a < (q + 1) * b
             ELSE q * b >= a /\ a > (q + 1) * b

\* C13: with a the second-from-top and b the top operand, SUB leaves a - b,
\* DIV leaves floor(a / b) and MOD leaves a - b * floor(a / b), for all
\* integers a and all b # 0 of either sign, so the MOD result is 0 or has
\* the sign of b; each of the five arithmetic opcodes shrinks the operand
\* stack by exactly one element.
C13_Arithmetic ==
    (phase = "called" /\ Len(pre.stack) >= 2)
    => LET n == Len(pre.stack)
           a == pre.stack[n - 1]
           b == pre.stack[n]
           r == stack[Len(stack)]
       IN  /\ b # 0 => fault = "none"
           /\ fault = "none"
              => /\ Len(stack) = n - 1
                 /\ SubSeq(stack, 1, n - 2) = SubSeq(pre.stack, 1, n - 2)
                 /\ instr.op = "SUB" => r = a - b
                 /\ instr.op = "DIV" => IsFloorQuotient(r, a, b)
                 /\ instr.op = "MOD"
                    => /\ \E q \in (0 - MaxOperand) .. MaxOperand :
                             IsFloorQuotient(q, a, b) /\ r = a - b * q
                       /\ r = 0 \/ ((r > 0) <=> (b > 0))

\* MOD of a negative by a positive operand and DIV of a positive by a
\* negative one, neither dividing evenly
C13_Witness ==
    /\ phase = "called"
    /\ kind = "AM1"
    /\ Len(pre.stack) = 3
    /\ \/ /\ instr.op = "MOD"
          /\ pre.stack[2] = 0 - 5
          /\ pre.stack[3] = 3
          /\ stack = << pre.stack[1], 1 >>
       \/ /\ instr.op = "DIV"
          /\ pre.stack[2] = 5
          /\ pre.stack[3] = 0 - 3
          /\ stack = << pre.stack[1], 0 - 2 >>

(***************************************************************************)
(* SpecCompare: a comparison and the conditional jump after it.  A machine *)
(* of either kind, built as in SpecArith, executes one of EQ, NE, LT, GT,  *)
(* LE, GE and then, if that raised nothing, JMC n.  program holds the      *)
(* instructions executed so far, pre the machine before the comparison.    *)
(***************************************************************************)
CompareOps == {"EQ", "NE", "LT", "GT", "LE", "GE"}

AM1Compare ==
    /\ kind = "AM1"
    /\ phase = "ready"
    /\ \E op \in CompareOps :
          /\ AM1Apply(I(op, "LOKAL", 0))
          /\ program' = << I(op, "LOKAL", 0) >>
    /\ pre' = AM1Self
    /\ phase' = "called"
    /\ UNCHANGED << stdout, source, parsed, kind, given, yielded, pc, outputs >>

AM0Compare ==
    /\ kind = "AM0"
    /\ phase = "ready"
    /\ \E op \in CompareOps :
          /\ AM0Apply([op |-> op, payload |-> 0])
          /\ program' = << [op |-> op, payload |-> 0] >>
    /\ pre' = AM0Self
    /\ phase' = "called"
    /\ UNCHANGED << stdout, source, parsed, kind, given, yielded, pc, outputs >>

AM1Jump ==
    /\ kind = "AM1"
    /\ phase = "called"
    /\ fault = "none"
    /\ \E n \in Val :
          /\ AM1Apply(I("JMC", "LOKAL", n))
          /\ program' = Append(program, I("JMC", "LOKAL", n))
    /\ phase' = "jumped"
    /\ UNCHANGED << stdout, source, parsed, kind, given, yielded, pc, outputs, pre >>

AM0Jump ==
    /\ kind = "AM0"
    /\ phase = "called"
    /\ fault = "none"
    /\ \E n \in Val :
          /\ AM0Apply([op |-> "JMC", payload |-> n])
          /\ program' = Append(program, [op |-> "JMC", payload |-> n])
    /\ phase' = "jumped"
    /\ UNCHANGED << stdout, source, parsed, kind, given, yielded, pc, outputs, pre >>

NextCompare ==
    \/ AM1Compare
    \/ AM0Compare
    \/ AM1Jump
    \/ AM0Jump

SpecCompare == InitArith /\ [][NextCompare]_vars

\* whether the relation a op b holds
Holds(op, a, b) ==
    CASE op = "EQ" -> a = b
      [] op = "NE" -> a # b
      [] op = "LT" -> a < b
      [] op = "GT" -> a > b
      [] op = "LE" -> a <= b
      [] op = "GE" -> a >= b

\* C14: on both AM0 and AM1, EQ, NE, LT, GT, LE and GE replace the two top
\* operands a (deeper) and b (top) by the integer 1 when a op b holds and by
\* the integer 0 otherwise, every element of the operand stack is an
\* integer, and a following JMC jumps exactly when the relation was false.
C14_Comparisons ==
    /\ \A k \in 1 .. Len(stack) : stack[k] \in Int
    /\ (phase \in {"called", "jumped"} /\ Len(pre.stack) >= 2)
       => LET n == Len(pre.stack)
              a == pre.stack[n - 1]
              b == pre.stack[n]
              rel == Holds(program[1].op, a, b)
              rest == SubSeq(pre.stack, 1, n - 2)
          IN  /\ fault = "none"
              /\ phase = "called"
                 => /\ stack = Append(rest, IF rel THEN 1 ELSE 0)
                    /\ counter = pre.counter + 1
              /\ phase = "jumped"
                 => /\ stack = rest
                    /\ counter = IF rel THEN pre.counter + 2
                                        ELSE program[2].payload

\* LE held of two different negative operands and the JMC after it fell
\* through; on the other machine GT failed and the JMC jumped
C14_Witness ==
    /\ phase = "jumped"
    /\ Len(pre.stack) = 2
    /\ \/ /\ kind = "AM0"
          /\ program[1].op = "LE"
          /\ pre.stack = << 0 - 3, 0 - 2 >>
          /\ program[2].payload = 0
          /\ counter = 3
       \/ /\ kind = "AM1"
          /\ program[1].op = "GT"
          /\ pre.stack = << 0 - 3, 0 - 2 >>
          /\ program[2].payload = 0
          /\ counter = 0

(***************************************************************************)
(* Further claims checked under SpecCall.                                  *)
(***************************************************************************)
\* C15: CALL n never faults: from counter c, frame pointer f and runtime
\* stack R it ends with runtime stack R followed by [c + 1, f], frame
\* pointer = length(R) + 2 (the new stack length), counter = n, and operand
\* stack and input unchanged.
C15_Call ==
    (phase = "callee" /\ instr.op = "CALL")
    => /\ fault = "none"
       /\ value = << >>
       /\ runtime_stack =
             pre.runtime_stack \o << pre.counter + 1, pre.reference_pointer >>
       /\ reference_pointer = Len(pre.runtime_stack) + 2
       /\ reference_pointer = Len(runtime_stack)
       /\ counter = instr.payload
       /\ stack = pre.stack
       /\ input = pre.input

\* CALL ran on a machine with operands, input and a runtime stack of two
\* cells whose frame pointer was not a valid one
C15_Witness ==
    /\ phase = "callee"
    /\ instr.op = "CALL"
    /\ Len(pre.runtime_stack) = 2
    /\ pre.reference_pointer = 0 - 1
    /\ pre.stack # << >>
    /\ pre.input # << >>
    /\ reference_pointer = 4
    /\ counter # pre.counter + 1

(***************************************************************************)
(* SpecInput: the input source.  As in Spec a caller drives a machine of   *)
(* either kind from its default state through execute_instruction, here    *)
(* over an input source of MaxInput + 1 values, and it keeps in outputs,   *)
(* for every READ or READI that returned, the value that instruction took  *)
(* from the input source.                                                  *)
(***************************************************************************)
ReadSource == [k \in 1 .. (MaxInput + 1) |-> k]

ReadOps == {"READ", "READI"}

InitInput ==
    /\ \E k \in {"AM0", "AM1"} : Default(k, ReadSource)
    /\ given = ReadSource
    /\ NoCall
    /\ NoText
    /\ phase = "ready"
    /\ DriverIdle

\* the caller's note of a READ or READI that returned
NoteRead(i) ==
    outputs' = IF i.op \in ReadOps /\ fault' = "none"
               THEN Append(outputs, Head(input))
               ELSE outputs

AM1InputStep ==
    /\ kind = "AM1"
    /\ phase = "ready"
    /\ \E i \in AM1Instructions : AM1Step(i) /\ NoteRead(i)
    /\ phase' = "called"
    /\ UNCHANGED << stdout, source, parsed, kind, given, yielded, program, pc >>

AM0InputStep ==
    /\ kind = "AM0"
    /\ phase = "ready"
    /\ \E i \in AM0Instructions : AM0Step(i) /\ NoteRead(i)
    /\ phase' = "called"
    /\ UNCHANGED << stdout, source, parsed, kind, given, yielded, program, pc >>

NextInput ==
    \/ AM1InputStep
    \/ AM0InputStep
    \/ Prompt

SpecInput == InitInput /\ [][NextInput]_vars

\* the cell a READ or READI of the machine pre addresses, 0 if there is none
C16_Cell ==
    LET len == Len(pre.runtime_stack)
        a == IF instr.op = "READ" /\ instr.ctx = "GLOBAL"
             THEN instr.payload
             ELSE instr.payload + pre.reference_pointer
    IN  IF instr.op = "READ" THEN a
        ELSE IF a \in 1 .. len /\ pre.runtime_stack[a] \in 1 .. len
             THEN pre.runtime_stack[a]
             ELSE 0

\* C16: input is consumed in order and only by READ-family instructions:
\* the k-th successfully executed READ/READI stores the k-th value of the
\* input source at the addressed cell, no other opcode consumes input, and
\* a READ/READI executed when no input remains raises a fault without
\* changing counter, operand stack, runtime stack / memory or frame pointer.
C16_InputInOrder ==
    /\ \A k \in 1 .. Len(outputs) : outputs[k] = given[k]
    /\ \A m \in {"AM0", "AM1"} :
          /\ (Executed(m) /\ instr.op \in ReadOps /\ fault = "none")
             => /\ outputs # << >>
                /\ m = "AM0" => memory[instr.payload] = outputs[Len(outputs)]
                /\ (m = "AM1" /\ C16_Cell # 0)
                   => runtime_stack[C16_Cell] = outputs[Len(outputs)]
          /\ (Executed(m) /\ instr.op \notin ReadOps) => input = pre.input
          /\ (Executed(m) /\ instr.op \in ReadOps /\ pre.input = << >>)
             => (fault # "none" /\ CoreUnchanged)

(***************************************************************************)
(* Text.  A Python str is modelled as the sequence of its characters,      *)
(* each a string of length one; the operators below are the str methods    *)
(* and the regular expression the parsers use, on the characters the       *)
(* model writes its sources with.                                          *)
(***************************************************************************)
UpperLetters == << "A", "B", "C", "D", "E", "F", "G", "H", "I", "J", "K", "L", "M",
                   "N", "O", "P", "Q", "R", "S", "T", "U", "V", "W", "X", "Y", "Z" >>

LowerLetters == << "a", "b", "c", "d", "e", "f", "g", "h", "i", "j", "k", "l", "m",
                   "n", "o", "p", "q", "r", "s", "t", "u", "v", "w", "x", "y", "z" >>

Digits == << "0", "1", "2", "3", "4", "5", "6", "7", "8", "9" >>

\* the characters str.rstrip() and int() strip
Whitespace == {" ", "\t", "\n"}

Range(f) == {f[k] : k \in DOMAIN f}

\* the regular expression class [A-Z]
IsUpper(c) == c \in Range(UpperLetters)

IsDigit(c) == c \in Range(Digits)

DigitValue(c) == (CHOOSE k \in DOMAIN Digits : Digits[k] = c) - 1

\* str.upper(), character by character
UpperChar(c) ==
    IF c \in Range(LowerLetters)
    THEN UpperLetters[CHOOSE k \in DOMAIN LowerLetters : LowerLetters[k] = c]
    ELSE c

\* a lookup of the context name as it is written
Upper_AsWritten(s) == s

Upper(s) == [k \in 1 .. Len(s) |-> UpperChar(s[k])]

\* the str of a sequence of characters, for the lookup of an enum member
RECURSIVE Join(_)
Join(s) == IF s = << >> THEN "" ELSE Head(s) \o Join(Tail(s))

\* a parser that does not trim its lines
RStrip_Untrimmed(s) == s

\* str.rstrip() and str.strip()
RECURSIVE RStrip(_)
RStrip(s) ==
    IF s # << >> /\ s[Len(s)] \in Whitespace
    THEN RStrip(SubSeq(s, 1, Len(s) - 1))
    ELSE s

RECURSIVE LStrip(_)
LStrip(s) ==
    IF s # << >> /\ s[1] \in Whitespace THEN LStrip(Tail(s)) ELSE s

Strip(s) == LStrip(RStrip(s))

\* the position of the first c in s, 0 if there is none
Find(s, c) ==
    IF \E k \in 1 .. Len(s) : s[k] = c
    THEN CHOOSE k \in 1 .. Len(s) : s[k] = c /\ \A j \in 1 .. (k - 1) : s[j] # c
    ELSE 0

\* str.split(sep): the pieces between the separators, at least one
RECURSIVE Split(_, _)
Split(s, sep) ==
    LET k == Find(s, sep)
    IN  IF k = 0 THEN << s >>
        ELSE << SubSeq(s, 1, k - 1) >> \o Split(SubSeq(s, k + 1, Len(s)), sep)

\* str.partition(sep): (before, sep, after), or (s, "", "") without sep
Partition(s, sep) ==
    LET k == Find(s, sep)
    IN  IF k = 0 THEN [first |-> s, sep |-> << >>, last |-> << >>]
        ELSE [first |-> SubSeq(s, 1, k - 1), sep |-> << sep >>,
              last |-> SubSeq(s, k + 1, Len(s))]

\* the value of a run of digits and underscores, read from the left
RECURSIVE DigitsValue(_, _)
DigitsValue(s, acc) ==
    IF s = << >> THEN acc
    ELSE IF Head(s) = "_" THEN DigitsValue(Tail(s), acc)
    ELSE DigitsValue(Tail(s), 10 * acc + DigitValue(Head(s)))

\* a number parser that takes digits only, no sign
PyIntParse_NoSign(s) ==
    LET t == Strip(s)
    IN  IF t = << >> \/ \E k \in 1 .. Len(t) : ~IsDigit(t[k])
        THEN [fault |-> "ValueError", value |-> 0]
        ELSE [fault |-> "none", value |-> DigitsValue(t, 0)]

\* int(s): surrounding whitespace, an optional sign, then digits, single
\* underscores allowed between digits; anything else is a ValueError
PyIntParse(s) ==
    LET t == Strip(s)
        signed == t # << >> /\ t[1] \in {"+", "-"}
        body == IF signed THEN Tail(t) ELSE t
        wellFormed ==
            /\ body # << >>
            /\ \A k \in 1 .. Len(body) : IsDigit(body[k]) \/ body[k] = "_"
            /\ IsDigit(body[1])
            /\ IsDigit(body[Len(body)])
            /\ \A k \in 1 .. (Len(body) - 1) : ~(body[k] = "_" /\ body[k + 1] = "_")
    IN  IF ~wellFormed THEN [fault |-> "ValueError", value |-> 0]
        ELSE [fault |-> "none",
              value |-> IF signed /\ t[1] = "-"
                        THEN 0 - DigitsValue(body, 0)
                        ELSE DigitsValue(body, 0)]

\* INSTRUCTION_PATTERN.fullmatch(line) for ([A-Z]{2,6})(\((.*)\)|( .*))?:
\* the name is the whole leading run of capitals, what follows is nothing,
\* "(" args ")" or " " and the rest; "." matches no newline.  args and arg
\* are wrapped in a sequence, << >> standing for None.
InstructionMatch(line) ==
    LET run == IF \E k \in 1 .. Len(line) : ~IsUpper(line[k])
               THEN (CHOOSE k \in 1 .. Len(line) :
                        ~IsUpper(line[k]) /\ \A j \in 1 .. (k - 1) : IsUpper(line[j])) - 1
               ELSE Len(line)
        rest == SubSeq(line, run + 1, Len(line))
        oneLine == \A k \in 1 .. Len(rest) : rest[k] # "\n"
        none == [matched |-> FALSE, name |-> << >>, args |-> << >>, arg |-> << >>]
    IN  IF run < 2 \/ run > 6 \/ ~oneLine THEN none
        ELSE IF rest = << >>
             THEN [matched |-> TRUE, name |-> SubSeq(line, 1, run),
                   args |-> << >>, arg |-> << >>]
        ELSE IF rest[1] = "(" /\ Len(rest) >= 2 /\ rest[Len(rest)] = ")"
             THEN [matched |-> TRUE, name |-> SubSeq(line, 1, run),
                   args |-> << SubSeq(rest, 2, Len(rest) - 1) >>, arg |-> << >>]
        ELSE IF rest[1] = " "
             THEN [matched |-> TRUE, name |-> SubSeq(line, 1, run),
                   args |-> << >>, arg |-> << rest >>]
        ELSE none

(***************************************************************************)
(* am1.Instruction.parse and AbstractInstruction.parse_program.            *)
(***************************************************************************)
ParseRaise(f) == [fault |-> f, instr |-> NoInstr]

\* a parser that reports an unknown context name as int() reports a
\* malformed number
ParseTuple_ContextValueError(name, context, text) ==
    LET payload == PyIntParse(text)
    IN  IF Join(name) \notin AM1Opcodes THEN ParseRaise("KeyError")
        ELSE IF context # << >> /\ Join(Upper(context[1])) \notin MemoryContext
             THEN ParseRaise("ValueError")
        ELSE IF payload.fault # "none" THEN ParseRaise("ValueError")
        ELSE [fault |-> "none",
              instr |-> [op |-> Join(name),
                         ctx |-> IF context = << >> THEN "LOKAL"
                                 ELSE Join(Upper(context[1])),
                         payload |-> payload.value]]

\* the tuple (cls[name], context, int(text)), its elements evaluated from
\* the left: cls[name] and MemoryContext[...] raise KeyError on a name that
\* is no member, int() raises ValueError.  context is wrapped in a
\* sequence, << >> standing for the default MemoryContext.LOKAL.
ParseTuple(name, context, text) ==
    LET payload == PyIntParse(text)
    IN  IF Join(name) \notin AM1Opcodes THEN ParseRaise("KeyError")
        ELSE IF context # << >> /\ Join(Upper(context[1])) \notin MemoryContext
             THEN ParseRaise("KeyError")
        ELSE IF payload.fault # "none" THEN ParseRaise("ValueError")
        ELSE [fault |-> "none",
              instr |-> [op |-> Join(name),
                         ctx |-> IF context = << >> THEN "LOKAL"
                                 ELSE Join(Upper(context[1])),
                         payload |-> payload.value]]

\* Instruction.parse(line)
parse(line) ==
    LET match == InstructionMatch(line)
    IN  IF ~match.matched THEN ParseRaise("KeyError")
        ELSE IF match.args # << >>
             THEN LET p == Partition(match.args[1], ",")
                  IN  IF p.sep = << >>
                      THEN ParseTuple(match.name, << >>, p.first)
                      ELSE ParseTuple(match.name, << p.first >>, p.last)
        ELSE IF match.arg # << >>
             THEN ParseTuple(match.name, << >>, match.arg[1])
        ELSE IF Join(match.name) \notin AM1Opcodes THEN ParseRaise("KeyError")
        ELSE [fault |-> "none",
              instr |-> [op |-> Join(match.name), ctx |-> "LOKAL", payload |-> 0]]

\* the loop of parse_program over enumerate(source.split("\n"), start=1):
\* yielded holds the instructions the generator has yielded so far; the
\* result names the exception it raised and the line number in its message
RECURSIVE ParseLines(_, _, _)
ParseLines(lines, number, sofar) ==
    IF number > Len(lines)
    THEN [program |-> sofar, fault |-> "none", line |-> 0]
    ELSE LET line == RStrip(lines[number])
         IN  IF line # << >> /\ line[Len(line)] = ";"
             THEN LET r == parse(SubSeq(line, 1, Len(line) - 1))
                  IN  IF r.fault = "KeyError"
                      THEN [program |-> sofar, line |-> number,
                            fault |-> "ValueError: invalid instruction at line"]
                      ELSE IF r.fault = "ValueError"
                      THEN [program |-> sofar, line |-> number,
                            fault |-> "ValueError: invalid payload at line"]
                      ELSE ParseLines(lines, number + 1, Append(sofar, r.instr))
             ELSE IF line # << >>
             THEN [program |-> sofar, line |-> number,
                   fault |-> "ValueError: missing semicolon on line"]
             ELSE ParseLines(lines, number + 1, sofar)

\* list(Instruction.parse_program(source)), or as far as the generator gets
parse_program(src) == ParseLines(Split(src, "\n"), 1, << >>)

(***************************************************************************)
(* SpecParseProgram: AbstractInstruction.parse_program as a function of    *)
(* its source.  The sources are the texts of up to MaxLines lines, joined  *)
(* by newlines, each line one of the lines below; the one action parses    *)
(* the source with the AM1 instruction class.                              *)
(***************************************************************************)
\* an empty line
LineEmpty == << >>

\* a line of whitespace
LineSpaces == << " ", "\t" >>

\* EQ;
LineEQ == << "E", "Q", ";" >>

\* JMP 2; followed by a space
LineJMP == << "J", "M", "P", " ", "2", ";", " " >>

\* LOAD(global,1);
LineLOAD == << "L", "O", "A", "D", "(", "g", "l", "o", "b", "a", "l", ",", "1", ")", ";" >>

\* EQ without its semicolon
LineNoSemicolon == << "E", "Q" >>

\* EQ; after a space: the pattern does not match
LineIndented == << " ", "E", "Q", ";" >>

\* XX; (no such mnemonic)
LineUnknownName == << "X", "X", ";" >>

\* XX y; (no such mnemonic, and no integer)
LineUnknownNamePayload == << "X", "X", " ", "y", ";" >>

\* JMP x; (no integer)
LineBadPayload == << "J", "M", "P", " ", "x", ";" >>

\* LOAD(global,x); (no integer)
LineBadPayloadArgs == << "L", "O", "A", "D", "(", "g", "l", "o", "b", "a", "l", ",", "x", ")", ";" >>

\* LOAD(xx,1); (no such context)
LineBadContext == << "L", "O", "A", "D", "(", "x", "x", ",", "1", ")", ";" >>

\* LOAD(xx,y); (no such context, and no integer)
LineBadContextPayload == << "L", "O", "A", "D", "(", "x", "x", ",", "y", ")", ";" >>

ProgramLines ==
    {LineEmpty, LineSpaces, LineEQ, LineJMP,
     LineLOAD, LineNoSemicolon, LineIndented, LineUnknownName,
     LineUnknownNamePayload, LineBadPayload, LineBadPayloadArgs, LineBadContext,
     LineBadContextPayload}

\* "\n".join(lines)
RECURSIVE JoinLines(_)
JoinLines(ls) ==
    IF ls = << >> THEN << >>
    ELSE IF Len(ls) = 1 THEN ls[1]
    ELSE ls[1] \o << "\n" >> \o JoinLines(Tail(ls))

Sources == {JoinLines(ls) : ls \in SeqsUpTo(ProgramLines, MaxLines)}

InitParseProgram ==
    /\ Default("AM1", << >>)
    /\ given = << >>
    /\ NoCall
    /\ phase = "ready"
    /\ DriverIdle
    /\ source \in Sources
    /\ parsed = << >>

\* tuple(instruction.parse_program(source)), as main_exec calls it
DoParseProgram ==
    /\ parsed = << >>
    /\ parsed' = << parse_program(source) >>
    /\ UNCHANGED << stdout, keys, source, kind, counter, stack, runtime_stack, reference_pointer,
                    memory, given, input, instr, fault, value, yielded, program,
                    pc, outputs, pre, phase >>

NextParseProgram == DoParseProgram

SpecParseProgram == InitParseProgram /\ [][NextParseProgram]_vars

\* the line holds nothing but whitespace
Blank(l) == \A k \in 1 .. Len(l) : l[k] \in Whitespace

\* the position of the ";" that ends the line, trailing whitespace aside;
\* 0 if the line does not end with one
Terminator(l) ==
    IF \E k \in 1 .. Len(l) :
          l[k] = ";" /\ \A j \in (k + 1) .. Len(l) : l[j] \in Whitespace
    THEN CHOOSE k \in 1 .. Len(l) :
            l[k] = ";" /\ \A j \in (k + 1) .. Len(l) : l[j] \in Whitespace
    ELSE 0

\* the instruction text of a line that ends with ";"
Body(l) == SubSeq(l, 1, Terminator(l) - 1)

\* a line parse_program cannot accept
Faulty(l) ==
    /\ ~Blank(l)
    /\ Terminator(l) = 0 \/ parse(Body(l)).fault # "none"

\* C17: parse_program returns the instructions of the non-blank lines in
\* source order; an empty source gives an empty program; empty and
\* whitespace-only lines are skipped; every other line must end with ";"
\* once trailing whitespace is trimmed, otherwise parsing fails with a fault
\* naming that line's 1-based physical line number (blank lines counted);
\* and of several faulty lines the first one is reported.
C17_ParseProgram ==
    parsed # << >>
    => LET r == parsed[1]
           lines == Split(source, "\n")
           faulty == {n \in 1 .. Len(lines) : Faulty(lines[n])}
           kept == SelectSeq(lines, LAMBDA l : ~Blank(l))
       IN  /\ source = << >> => (r.fault = "none" /\ r.program = << >>)
           /\ faulty = {}
              => /\ r.fault = "none"
                 /\ r.program = [j \in 1 .. Len(kept) |-> parse(Body(kept[j])).instr]
           /\ faulty # {}
              => LET n == CHOOSE n \in faulty : \A o \in faulty : n <= o
                 IN  /\ r.fault # "none"
                     /\ r.line = n
                     /\ r.fault = "ValueError: missing semicolon on line"
                           <=> Terminator(lines[n]) = 0

\* a source whose first line is blank, whose second line lacks its
\* semicolon and whose third line is faulty too: line 2 is reported
C17_Witness ==
    /\ parsed # << >>
    /\ source = JoinLines(<< LineSpaces, LineNoSemicolon, LineUnknownName >>)
    /\ parsed[1].fault = "ValueError: missing semicolon on line"
    /\ parsed[1].line = 2

\* a source of three lines, one blank and one with trailing whitespace,
\* parsed to the two instructions of the others
C17_WitnessProgram ==
    /\ parsed # << >>
    /\ source = JoinLines(<< LineJMP, LineSpaces, LineLOAD >>)
    /\ parsed[1].fault = "none"
    /\ parsed[1].program = << I("JMP", "LOKAL", 2), I("LOAD", "GLOBAL", 1) >>

\* the line the parser reported, as it stands in the source
ReportedLine == Split(source, "\n")[parsed[1].line]

\* C18 as stated: a line with an unknown mnemonic is reported as "invalid
\* instruction at line N", a line with a non-integer payload or an unknown
\* context name as "invalid payload at line N", N being the 1-based number
\* of the offending line.
C18_ParseFaultsAsStated ==
    (parsed # << >> /\ parsed[1].fault # "none")
    => /\ ReportedLine = LineUnknownName
          => parsed[1].fault = "ValueError: invalid instruction at line"
       /\ ReportedLine \in {LineBadPayload, LineBadPayloadArgs, LineBadContext}
          => parsed[1].fault = "ValueError: invalid payload at line"

\* C18, amended: a line with an unknown mnemonic, and a line with a known
\* mnemonic and an unknown context name, is reported as "invalid instruction
\* at line N", whatever its payload; a line with a known mnemonic, a known
\* or no context name and a non-integer payload is reported as "invalid
\* payload at line N".
C18_ParseFaults ==
    (parsed # << >> /\ parsed[1].fault # "none")
    => /\ ReportedLine \in {LineUnknownName, LineUnknownNamePayload,
                            LineBadContext, LineBadContextPayload}
          => parsed[1].fault = "ValueError: invalid instruction at line"
       /\ ReportedLine \in {LineBadPayload, LineBadPayloadArgs}
          => parsed[1].fault = "ValueError: invalid payload at line"

\* the parser reported the unknown context name on line 3, past a line
\* that parsed and a blank one
C18_Witness ==
    /\ parsed # << >>
    /\ source = JoinLines(<< LineLOAD, LineEmpty, LineBadContext >>)
    /\ parsed[1].fault = "ValueError: invalid instruction at line"
    /\ parsed[1].line = 3
    /\ parsed[1].program = << I("LOAD", "GLOBAL", 1) >>

(***************************************************************************)
(* SpecParse: am1.Instruction.parse as a function of its line.  The lines  *)
(* are those of the four forms NAME, NAME payload, NAME(payload) and       *)
(* NAME(context,payload), written with every mnemonic, the decimal         *)
(* literals of the integers up to MaxPayload in absolute value (with a     *)
(* leading + as well) and the context names global, lokal and local in     *)
(* every letter case; the one action parses the line.                      *)
(***************************************************************************)
\* the spelling of each Instruction member, in value order
Mnemonics ==
    << << "A", "D", "D" >>,
       << "M", "U", "L" >>,
       << "S", "U", "B" >>,
       << "D", "I", "V" >>,
       << "M", "O", "D" >>,
       << "E", "Q" >>,
       << "N", "E" >>,
       << "L", "T" >>,
       << "G", "T" >>,
       << "L", "E" >>,
       << "G", "E" >>,
       << "L", "O", "A", "D" >>,
       << "L", "O", "A", "D", "A" >>,
       << "L", "O", "A", "D", "I" >>,
       << "S", "T", "O", "R", "E" >>,
       << "S", "T", "O", "R", "E", "I" >>,
       << "L", "I", "T" >>,
       << "J", "M", "P" >>,
       << "J", "M", "C" >>,
       << "W", "R", "I", "T", "E" >>,
       << "W", "R", "I", "T", "E", "I" >>,
       << "R", "E", "A", "D" >>,
       << "R", "E", "A", "D", "I" >>,
       << "P", "U", "S", "H" >>,
       << "C", "A", "L", "L" >>,
       << "I", "N", "I", "T" >>,
       << "R", "E", "T" >> >>

\* str(v): the decimal literal of an integer
RECURSIVE Decimal(_)
Decimal(v) ==
    IF v < 0 THEN << "-" >> \o Decimal(0 - v)
    ELSE IF v < 10 THEN << Digits[v + 1] >>
    ELSE Decimal(v \div 10) \o << Digits[(v % 10) + 1] >>

Payloads == (0 - MaxPayload) .. MaxPayload

Literals ==
    {Decimal(v) : v \in Payloads} \cup {<< "+" >> \o Decimal(v) : v \in 0 .. MaxPayload}

\* a word in every letter case
RECURSIVE CaseVariants(_)
CaseVariants(word) ==
    IF word = << >> THEN {<< >>}
    ELSE {<< c >> \o rest : c \in {word[1], UpperChar(word[1])},
                            rest \in CaseVariants(Tail(word))}

WordGlobal == << "g", "l", "o", "b", "a", "l" >>
WordLokal == << "l", "o", "k", "a", "l" >>
WordLocal == << "l", "o", "c", "a", "l" >>

ContextNames ==
    CaseVariants(WordGlobal) \cup CaseVariants(WordLokal) \cup CaseVariants(WordLocal)

ParseInputs ==
    {Mnemonics[v] : v \in DOMAIN Mnemonics}
    \cup {Mnemonics[v] \o << " " >> \o t : v \in DOMAIN Mnemonics, t \in Literals}
    \cup {Mnemonics[v] \o << "(" >> \o t \o << ")" >> :
            v \in DOMAIN Mnemonics, t \in Literals}
    \cup {Mnemonics[v] \o << "(" >> \o c \o << "," >> \o t \o << ")" >> :
            v \in DOMAIN Mnemonics, c \in ContextNames, t \in Literals}

InitParse ==
    /\ Default("AM1", << >>)
    /\ given = << >>
    /\ NoCall
    /\ phase = "ready"
    /\ DriverIdle
    /\ source \in ParseInputs
    /\ parsed = << >>

\* self.instruction.parse(arg), as REPL.do_exec calls it
DoParse ==
    /\ parsed = << >>
    /\ parsed' = << parse(source) >>
    /\ UNCHANGED << stdout, keys, source, kind, counter, stack, runtime_stack, reference_pointer,
                    memory, given, input, instr, fault, value, yielded, program,
                    pc, outputs, pre, phase >>

NextParse == DoParse

SpecParse == InitParse /\ [][NextParse]_vars

IsPrefix(a, s) == Len(a) <= Len(s) /\ SubSeq(s, 1, Len(a)) = a

\* the literals of the integer p: its decimal digits, signed - if negative
\* and optionally signed + otherwise
SignedLiterals(p) ==
    {Decimal(p)} \cup (IF p >= 0 THEN {<< "+" >> \o Decimal(p)} ELSE {})

\* the parser returned the instruction (op, context, payload)
ParsedAs(op, context, payload) ==
    parsed[1] = [fault |-> "none", instr |-> I(op, context, payload)]

\* C19: Instruction.parse fills in defaults: NAME parses to (NAME, local
\* context, 0), NAME payload and NAME(payload) parse to (NAME, local
\* context, payload), and NAME(context,payload) parses to (NAME, context,
\* payload), for every mnemonic of the 27 opcodes and every signed integer
\* payload.
C19_ParseDefaults ==
    parsed # << >>
    => \A v \in DOMAIN Mnemonics :
          IsPrefix(Mnemonics[v], source)
          => LET name == Mnemonics[v]
                 op == AM1Names[v]
             IN  /\ source = name => ParsedAs(op, "LOKAL", 0)
                 /\ \A p \in Payloads : \A t \in SignedLiterals(p) :
                       /\ source = name \o << " " >> \o t
                          => ParsedAs(op, "LOKAL", p)
                       /\ source = name \o << "(" >> \o t \o << ")" >>
                          => ParsedAs(op, "LOKAL", p)
                       /\ source = name \o << "(" >> \o WordGlobal \o << "," >> \o t \o << ")" >>
                          => ParsedAs(op, "GLOBAL", p)
                       /\ source = name \o << "(" >> \o WordLokal \o << "," >> \o t \o << ")" >>
                          => ParsedAs(op, "LOKAL", p)

\* STOREI(global,-7) was parsed, a mnemonic of six letters with a context
\* it does not use and a negative payload
C19_Witness ==
    /\ parsed # << >>
    /\ source = Mnemonics[16] \o << "(" >> \o WordGlobal \o << ",", "-", "7", ")" >>
    /\ parsed[1].fault = "none"
    /\ parsed[1].instr = I("STOREI", "GLOBAL", 0 - 7)

\* the context name of a line of the form NAME(context,payload)
ContextText ==
    SubSeq(source, Find(source, "(") + 1, Find(source, ",") - 1)

HasContextText == Find(source, "(") # 0 /\ Find(source, ",") # 0

\* C20 as stated: Instruction.parse accepts the context names global and
\* local in any letter case and maps them to the GLOBAL and the local
\* address context.
C20_ContextNamesAsStated ==
    (parsed # << >> /\ HasContextText)
    => /\ ContextText \in CaseVariants(WordGlobal)
          => (parsed[1].fault = "none" /\ parsed[1].instr.ctx = "GLOBAL")
       /\ ContextText \in CaseVariants(WordLocal)
          => (parsed[1].fault = "none" /\ parsed[1].instr.ctx = "LOKAL")

\* C20, amended: Instruction.parse accepts the context names global and
\* lokal, the names of the members of MemoryContext, in any letter case and
\* maps them to MemoryContext.GLOBAL and MemoryContext.LOKAL (the local
\* context); the name local, in any letter case, it rejects with the
\* KeyError of an unknown name.
C20_ContextNames ==
    (parsed # << >> /\ HasContextText)
    => /\ ContextText \in CaseVariants(WordGlobal)
          => (parsed[1].fault = "none" /\ parsed[1].instr.ctx = "GLOBAL")
       /\ ContextText \in CaseVariants(WordLokal)
          => (parsed[1].fault = "none" /\ parsed[1].instr.ctx = "LOKAL")
       /\ ContextText \in CaseVariants(WordLocal)
          => parsed[1].fault = "KeyError"

\* LOAD(LoKaL,3) was parsed
C20_Witness ==
    /\ parsed # << >>
    /\ source = << "L", "O", "A", "D", "(", "L", "o", "K", "a", "L", ",", "3", ")" >>
    /\ parsed[1].fault = "none"
    /\ parsed[1].instr = I("LOAD", "LOKAL", 3)


(***************************************************************************)
(* Machine.state and Machine.status: the text of a machine.  input and     *)
(* output are the iterables the caller hands to state().                   *)
(***************************************************************************)
\* reversed(s)
Reversed(s) == [k \in 1 .. Len(s) |-> s[Len(s) + 1 - k]]

\* map(str, s)
StrAll(s) == [k \in 1 .. Len(s) |-> Decimal(s[k])]

\* sep.join(items)
RECURSIVE SepJoin(_, _)
SepJoin(sep, items) ==
    IF items = << >> THEN << >>
    ELSE IF Len(items) = 1 THEN items[1]
    ELSE items[1] \o sep \o SepJoin(sep, Tail(items))

\* a format specification without a fill character
Fill_NoFiller(t) == t

\* the format specification ε<1: a text shorter than one character is
\* filled up with ε
Fill(t) == IF Len(t) < 1 THEN << "ε" >> ELSE t

\* ' : '.join(map(str, s)) under the format specification ε<1
Listed(s) == Fill(SepJoin(<< " ", ":", " " >>, StrAll(s)))

CommaSpace == << ",", " " >>

\* am1.Machine.state(input, output)
AM1State(m, in, out) ==
    << "(" >> \o Decimal(m.counter) \o CommaSpace
        \o Listed(Reversed(m.stack)) \o CommaSpace
        \o Listed(m.runtime_stack) \o CommaSpace
        \o Decimal(m.reference_pointer) \o CommaSpace
        \o Listed(in) \o CommaSpace
        \o Listed(out) \o << ")" >>

\* am0.Machine.state(input, output): the memory is listed as key/value in
\* the order of the dict, without a filler
AM0State(m, order, in, out) ==
    << "(" >> \o Decimal(m.counter) \o CommaSpace
        \o Listed(Reversed(m.stack)) \o CommaSpace
        \o << "[" >>
        \o SepJoin(CommaSpace,
                   [k \in 1 .. Len(order) |->
                        Decimal(order[k]) \o << "/" >> \o Decimal(m.memory[order[k]])])
        \o << "]" >> \o CommaSpace
        \o Listed(in) \o CommaSpace
        \o Listed(out) \o << ")" >>

\* str(l) of a list of integers
ListStr(l) == << "[" >> \o SepJoin(CommaSpace, StrAll(l)) \o << "]" >>

\* am1.Machine.status(): the values of the mapping, in the order of its keys
\* Counter, Stack, Runtime Stack, Reference Pointer
AM1Status(m) ==
    << Decimal(m.counter),
       ListStr(m.stack),
       << "\n" >> \o SepJoin(<< "\n" >>,
                            [k \in 1 .. Len(m.runtime_stack) |->
                                << "\t" >> \o Decimal(k) \o << " ", ":", "=", " " >>
                                    \o Decimal(m.runtime_stack[k])]),
       Decimal(m.reference_pointer) >>

\* am0.Machine.status(): Counter, Stack, Memory
AM0Status(m, order) ==
    << Decimal(m.counter),
       ListStr(m.stack),
       << "\n" >> \o SepJoin(<< "\n" >>,
                            [k \in 1 .. Len(order) |->
                                << "\t" >> \o Decimal(order[k]) \o << " ", ":", "=", " " >>
                                    \o Decimal(m.memory[order[k]])]) >>




(***************************************************************************)
(* SpecRepl: the command loop of REPL around a machine in its default      *)
(* state, as main_repl builds it.  Each action reads one line, lets        *)
(* Cmd.onecmd find its handler and runs the handler to its end; source is  *)
(* the line, parsed what do_exec's parser gave, stdout what the handler    *)
(* wrote, and instr, fault, value and pre are those of the call of         *)
(* execute_instruction, if there was one.  phase is "ready" at the prompt, *)
(* "called" when a handler has returned False, "exited" when one has       *)
(* returned True and "raised" when an exception has left the handler and   *)
(* with it cmdloop.                                                        *)
(***************************************************************************)
\* the characters of a command name: Cmd.identchars
IsIdentChar(c) ==
    c \in Range(UpperLetters) \cup Range(LowerLetters) \cup Range(Digits) \cup {"_"}

\* Cmd.parseline: the line stripped, its leading run of identchars as the
\* command and the rest, stripped, as the argument; named is FALSE where
\* parseline gives None for the command
Command(line) ==
    LET l == Strip(line)
        run == IF \E k \in 1 .. Len(l) : ~IsIdentChar(l[k])
               THEN (CHOOSE k \in 1 .. Len(l) :
                        ~IsIdentChar(l[k]) /\ \A j \in 1 .. (k - 1) : IsIdentChar(l[j])) - 1
               ELSE Len(l)
    IN  IF l = << >> \/ l[1] = "!"
        THEN [named |-> FALSE, cmd |-> "", arg |-> << >>, line |-> l]
        ELSE [named |-> TRUE, cmd |-> Join(SubSeq(l, 1, run)),
              arg |-> Strip(SubSeq(l, run + 1, Len(l))), line |-> l]

\* the methods do_... of REPL
Commands == {"exec", "reset", "status", "state", "EOF", "exit"}

\* a command loop that hands an empty line to default like any line that
\* names no command
Handler_EmptyIsUnknown(line) ==
    LET c == Command(line)
    IN  IF c.line = << >> \/ ~c.named \/ c.cmd \notin Commands THEN "default"
        ELSE c.cmd

\* Cmd.onecmd: the method that handles the line
Handler(line) ==
    LET c == Command(line)
    IN  IF c.line = << >> THEN "emptyline"
        ELSE IF ~c.named \/ c.cmd \notin Commands THEN "default"
        ELSE c.cmd

WordExec == << "e", "x", "e", "c" >>

\* the instruction lines the model types after exec: every mnemonic alone
\* and with each literal of Val as its payload, with the context global
\* where the instruction takes one, and lines the parser rejects
ReplLiterals == {Decimal(v) : v \in Val}

AM1Texts ==
    {Mnemonics[v] : v \in DOMAIN Mnemonics}
    \cup {Mnemonics[v] \o << " " >> \o t : v \in DOMAIN Mnemonics, t \in ReplLiterals}
    \cup {Mnemonics[v] \o << "(" >> \o WordGlobal \o << "," >> \o t \o << ")" >> :
            v \in {w \in DOMAIN Mnemonics : AM1HasContext(Join(Mnemonics[w]))},
            t \in ReplLiterals}
    \cup {<< "X", "X" >>, << "L", "I", "T", " ", "x" >>,
          Mnemonics[12] \o << "(" >> \o WordLocal \o << ",", "1", ")" >>}

AM0Texts ==
    {Mnemonics[v] : v \in {w \in DOMAIN Mnemonics : Join(Mnemonics[w]) \in AM0Opcodes}}
    \cup {Mnemonics[v] \o << " " >> \o t :
            v \in {w \in DOMAIN Mnemonics : Join(Mnemonics[w]) \in AM0Opcodes},
            t \in ReplLiterals}
    \cup {<< "X", "X" >>, << "L", "I", "T", " ", "x" >>, Mnemonics[13] \o << " ", "1" >>,
          Mnemonics[12] \o << "(" >> \o WordGlobal \o << ",", "1", ")" >>}

\* the lines typed that are no exec with an instruction: nothing, blanks,
\* the other commands, exec without an argument, and lines that name no
\* command
OtherLines ==
    {<< >>,
     << " ", " " >>,
     << "r", "e", "s", "e", "t" >>,
     << "s", "t", "a", "t", "u", "s" >>,
     << "s", "t", "a", "t", "e" >>,
     << "s", "t", "a", "t", "e", " " >>,
     << "e", "x", "i", "t" >>,
     << "E", "O", "F" >>,
     WordExec,
     << "r", "u", "n" >>,
     << "E", "X", "E", "C", " ", "D", "I", "V" >>,
     << "!", "e", "x", "e", "c", " ", "D", "I", "V" >>}

ReplLines(k) ==
    OtherLines
    \cup {WordExec \o << " " >> \o t : t \in IF k = "AM1" THEN AM1Texts ELSE AM0Texts}
    \cup {<< " " >> \o WordExec \o << " ", " " >> \o Mnemonics[4] \o << " " >>}

\* the lines of the model by the machine and by the handler Cmd.onecmd
\* finds for them
Typed ==
    [k \in {"AM0", "AM1"} |->
        [h \in Commands \cup {"emptyline", "default"} |->
            {l \in ReplLines(k) : Handler(l) = h}]]

\* am0.Instruction.parse(line): cls[name] is looked up before int(payload)
AM0parse(line) ==
    LET p == Partition(line, " ")
        payload == PyIntParse(p.last)
    IN  IF Join(p.first) \notin AM0Opcodes THEN ParseRaise("KeyError")
        ELSE IF p.sep = << >>
             THEN [fault |-> "none", instr |-> [op |-> Join(p.first), payload |-> 0]]
        ELSE IF payload.fault # "none" THEN ParseRaise("ValueError")
        ELSE [fault |-> "none", instr |-> [op |-> Join(p.first), payload |-> payload.value]]

\* self.instruction.parse(arg) in do_exec, for the exec lines of the model:
\* each line with what the parser gives for its argument
ExecLines ==
    [k \in {"AM0", "AM1"} |->
        {[line |-> l,
          p |-> IF k = "AM1" THEN parse(Command(l).arg) ELSE AM0parse(Command(l).arg)] :
            l \in Typed[k]["exec"]}]

\* except (LookupError, ValueError): IndexError and KeyError are
\* LookupErrors, ZeroDivisionError and StopIteration are neither
Caught(f) ==
    f \in {"IndexError", "KeyError", "LookupError: stack is too small to return",
           "ValueError: address", "ValueError: invalid instruction"}

\* what do_exec writes for the outcome of execute_instruction
ExecWrites(f, v) ==
    IF f = "none"
    THEN IF v = << >> THEN << >> ELSE << "Output: " \o Join(Decimal(v[1])) \o "\n" >>
    ELSE IF Caught(f) THEN << "Error while executing: " \o f \o "\n" >>
    ELSE << >>

InitRepl ==
    /\ \E k \in {"AM0", "AM1"} : Default(k, InputSource)
    /\ given = InputSource
    /\ NoCall
    /\ NoText
    /\ phase = "ready"
    /\ DriverIdle

\* do_exec whose argument the parser rejects
ReplExecNoParse ==
    /\ phase = "ready"
    /\ \E e \in ExecLines[kind] :
        /\ e.p.fault # "none"
        /\ source' = e.line
        /\ parsed' = << e.p >>
        /\ stdout' = << "Error while parsing: " \o e.p.fault \o "\n" >>
    /\ pre' = IF kind = "AM1" THEN AM1Self ELSE AM0Self
    /\ phase' = "called"
    /\ UNCHANGED << kind, counter, stack, runtime_stack, reference_pointer, memory,
                    keys, given, input, instr, fault, value, yielded, program, pc,
                    outputs >>

\* do_exec on the AM1 machine with an argument the parser takes
AM1ReplExec ==
    /\ kind = "AM1"
    /\ phase = "ready"
    /\ \E e \in ExecLines["AM1"] :
        /\ e.p.fault = "none"
        /\ source' = e.line
        /\ parsed' = << e.p >>
        /\ AM1Step(e.p.instr)
    /\ stdout' = ExecWrites(fault', value')
    /\ phase' = IF fault' = "none" \/ Caught(fault') THEN "called" ELSE "raised"
    /\ UNCHANGED << kind, given, yielded, program, pc, outputs >>

\* do_exec on the AM0 machine with an argument the parser takes
AM0ReplExec ==
    /\ kind = "AM0"
    /\ phase = "ready"
    /\ \E e \in ExecLines["AM0"] :
        /\ e.p.fault = "none"
        /\ source' = e.line
        /\ parsed' = << e.p >>
        /\ AM0Step(e.p.instr)
    /\ stdout' = ExecWrites(fault', value')
    /\ phase' = IF fault' = "none" \/ Caught(fault') THEN "called" ELSE "raised"
    /\ UNCHANGED << kind, given, yielded, program, pc, outputs >>

\* do_reset
ReplReset ==
    /\ phase = "ready"
    /\ \E line \in Typed[kind]["reset"] : source' = line
    /\ IF kind = "AM1"
       THEN LET m == AM1Reset(AM1Self)
            IN  /\ counter' = m.counter
                /\ stack' = m.stack
                /\ runtime_stack' = m.runtime_stack
                /\ reference_pointer' = m.reference_pointer
                /\ input' = m.input
                /\ pre' = AM1Self
                /\ UNCHANGED << memory, keys >>
       ELSE LET m == AM0Reset(AM0Self)
            IN  /\ counter' = m.counter
                /\ stack' = m.stack
                /\ memory' = m.memory
                /\ keys' = KeyOrder(keys, m.memory)
                /\ input' = m.input
                /\ pre' = AM0Self
                /\ UNCHANGED << runtime_stack, reference_pointer >>
    /\ phase' = "called"
    /\ UNCHANGED << kind, given, instr, fault, value, yielded, program, pc, outputs,
                    stdout, parsed >>

\* a handler that leaves the machine alone, writes the lines w and returns
\* stop
ReplWrites(line, w, stop) ==
    /\ source' = line
    /\ stdout' = w
    /\ pre' = IF kind = "AM1" THEN AM1Self ELSE AM0Self
    /\ phase' = IF stop THEN "exited" ELSE "called"
    /\ UNCHANGED << kind, counter, stack, runtime_stack, reference_pointer, memory,
                    keys, given, input, instr, fault, value, yielded, program, pc,
                    outputs, parsed >>

\* do_status: one line for each key of machine.status()
ReplStatus ==
    /\ phase = "ready"
    /\ \E line \in Typed[kind]["status"] :
        ReplWrites(line,
                      IF kind = "AM1"
                      THEN LET s == AM1Status(AM1Self)
                           IN  << "Counter: " \o Join(s[1]) \o "\n",
                                  "Stack: " \o Join(s[2]) \o "\n",
                                  "Runtime Stack: " \o Join(s[3]) \o "\n",
                                  "Reference Pointer: " \o Join(s[4]) \o "\n" >>
                      ELSE LET s == AM0Status(AM0Self, keys)
                           IN  << "Counter: " \o Join(s[1]) \o "\n",
                                  "Stack: " \o Join(s[2]) \o "\n",
                                  "Memory: " \o Join(s[3]) \o "\n" >>,
                      FALSE)

\* do_state: machine.state([], [])
ReplState ==
    /\ phase = "ready"
    /\ \E line \in Typed[kind]["state"] :
        ReplWrites(line,
                      << Join(IF kind = "AM1"
                              THEN AM1State(AM1Self, << >>, << >>)
                              ELSE AM0State(AM0Self, keys, << >>, << >>)) \o "\n" >>,
                      FALSE)

\* emptyline
ReplEmptyLine ==
    /\ phase = "ready"
    /\ \E line \in Typed[kind]["emptyline"] :
        ReplWrites(line, << >>, FALSE)

\* default
ReplDefault ==
    /\ phase = "ready"
    /\ \E line \in Typed[kind]["default"] :
        ReplWrites(line,
                      << "*** Unknown command: " \o Join(Command(line).line) \o "\n" >>,
                      FALSE)

\* do_exit, and do_EOF that calls it
ReplExit ==
    /\ phase = "ready"
    /\ \E line \in Typed[kind]["exit"] \cup Typed[kind]["EOF"] :
        ReplWrites(line, << "Exiting REPL...\n" >>, TRUE)

\* cmdloop writes its prompt and reads the next line
ReplPrompt ==
    /\ phase = "called"
    /\ instr' = NoInstr
    /\ fault' = "none"
    /\ value' = << >>
    /\ pre' = << >>
    /\ stdout' = << >>
    /\ source' = << >>
    /\ parsed' = << >>
    /\ phase' = "ready"
    /\ UNCHANGED << kind, counter, stack, runtime_stack, reference_pointer, memory,
                    keys, given, input, yielded, program, pc, outputs >>

NextRepl ==
    \/ ReplExecNoParse
    \/ AM1ReplExec
    \/ AM0ReplExec
    \/ ReplReset
    \/ ReplStatus
    \/ ReplState
    \/ ReplEmptyLine
    \/ ReplDefault
    \/ ReplExit
    \/ ReplPrompt

SpecRepl == InitRepl /\ [][NextRepl]_vars

\* the last command was an exec that reached execute_instruction
ExecReached == phase \in {"called", "raised"} /\ instr \in AM1Instructions \cup AM0Instructions

\* C21: every fault raised while executing the instruction of an exec
\* command is reported as 'Error while executing: ...', and the command
\* loop goes on to its next command.
C21_FaultsReported ==
    (ExecReached /\ fault # "none")
    => (phase = "called" /\ stdout = << "Error while executing: " \o fault \o "\n" >>)


(***************************************************************************)
(* SpecState: Machine.state as a function of the machine and of the two    *)
(* iterables it is handed, which are, as in main_trace, the input that is  *)
(* left and the output so far.  The one action of each machine writes the  *)
(* text, as main_trace does.                                               *)
(***************************************************************************)
\* the integers the lists hold: negative, zero, of one and of two digits
ShownVals == {0 - 1, 0, 6, 42}

InitState ==
    /\ kind \in {"AM0", "AM1"}
    /\ counter \in {1, 42}
    /\ stack \in SeqsUpTo(ShownVals, MaxShown)
    /\ IF kind = "AM1"
       THEN /\ runtime_stack \in SeqsUpTo(ShownVals, MaxShown)
            /\ reference_pointer \in {0, 2}
            /\ memory = << >>
            /\ keys = << >>
       ELSE /\ runtime_stack = << >>
            /\ reference_pointer = 0
            /\ keys \in {<< >>, << 3 >>, << 3, 5 >>, << 5, 3 >>}
            /\ memory \in [Range(keys) -> {4, 6}]
    /\ input \in SeqsUpTo({1, 2}, MaxShown)
    /\ given = input
    /\ outputs \in {SubSeq(<< 0, 1, 2 >>, 1, n) : n \in 0 .. MaxShown}
    /\ program = << >>
    /\ pc = "none"
    /\ NoCall
    /\ NoText
    /\ phase = "ready"

\* sys.stderr.write(f"{_machine.state(reversed(args.input), output)}\n")
AM1DoState ==
    /\ kind = "AM1"
    /\ phase = "ready"
    /\ stdout' = << Join(AM1State(AM1Self, input, outputs)) \o "\n" >>
    /\ pre' = AM1Self
    /\ phase' = "called"
    /\ UNCHANGED << kind, counter, stack, runtime_stack, reference_pointer, memory,
                    keys, given, input, instr, fault, value, yielded, program, pc,
                    outputs, source, parsed >>

AM0DoState ==
    /\ kind = "AM0"
    /\ phase = "ready"
    /\ stdout' = << Join(AM0State(AM0Self, keys, input, outputs)) \o "\n" >>
    /\ pre' = AM0Self
    /\ phase' = "called"
    /\ UNCHANGED << kind, counter, stack, runtime_stack, reference_pointer, memory,
                    keys, given, input, instr, fault, value, yielded, program, pc,
                    outputs, source, parsed >>

NextState == AM1DoState \/ AM0DoState

SpecState == InitState /\ [][NextState]_vars

\* the elements of a list from its element number k down to its first, or
\* from its first up, joined by ' : '; ε for no element
RECURSIVE Downwards(_, _)
Downwards(l, k) ==
    IF k = 1 THEN Join(Decimal(l[1]))
    ELSE Join(Decimal(l[k])) \o " : " \o Downwards(l, k - 1)

RECURSIVE Upwards(_, _)
Upwards(l, k) ==
    IF k = Len(l) THEN Join(Decimal(l[k]))
    ELSE Join(Decimal(l[k])) \o " : " \o Upwards(l, k + 1)

TopFirst(l) == IF l = << >> THEN "ε" ELSE Downwards(l, Len(l))

InOrder(l) == IF l = << >> THEN "ε" ELSE Upwards(l, 1)

\* C22: state() of an AM1 machine renders (counter, stack, runtime stack,
\* frame pointer, input, output), the operand stack top element first, the
\* runtime stack, the input and the output in their own order, the elements
\* joined by ' : ' and an empty sequence as the one character ε; it
\* changes nothing of the machine.
C22_State ==
    (kind = "AM1" /\ phase = "called")
    => /\ stdout = << "(" \o Join(Decimal(counter)) \o ", " \o TopFirst(stack) \o ", "
                        \o InOrder(runtime_stack) \o ", "
                        \o Join(Decimal(reference_pointer)) \o ", "
                        \o InOrder(input) \o ", " \o InOrder(outputs) \o ")\n" >>
       /\ AM1Self = pre
       /\ input = given

\* a machine with an empty operand stack, two cells and two outputs was shown
C22_Witness ==
    /\ kind = "AM1"
    /\ phase = "called"
    /\ stack = << >>
    /\ runtime_stack = << 42, 0 - 1 >>
    /\ input = << >>
    /\ Len(outputs) = 2
    /\ stdout = << "(42, ε, 42 : -1, 2, ε, 0 : 1)\n" >>


(***************************************************************************)
(* SpecRunAM0: execute_program on an AM0 machine in its default state, the *)
(* caller pulling every value of the generator.                            *)
(***************************************************************************)
J(o, p) == [op |-> o, payload |-> p]

\* tuple(Instruction.parse_program(EXAMPLE_PROGRAM1)) of tests/test_am0.py
AM0_EXAMPLE_PROGRAM1 ==
    << J("READ", 2),
       J("LIT", 1),
       J("STORE", 1),
       J("LIT", 0),
       J("STORE", 3),
       J("LOAD", 1),
       J("LOAD", 2),
       J("LE", 0),
       J("JMC", 21),
       J("LOAD", 3),
       J("LOAD", 1),
       J("LOAD", 1),
       J("MUL", 0),
       J("ADD", 0),
       J("STORE", 3),
       J("LOAD", 1),
       J("LIT", 1),
       J("ADD", 0),
       J("STORE", 1),
       J("JMP", 6),
       J("WRITE", 3) >>

AM0RunInstructions ==
    {J("JMP", t) : t \in {0, 1, MaxProgram + 2}}
    \cup {J("JMC", t) : t \in {0 - 1, MaxProgram}}
    \cup {J("LIT", v) : v \in {0, 1}}
    \cup {J("ADD", 0), J("DIV", 0), J("READ", 1), J("WRITE", 1), J("STORE", 1),
          J("LOAD", 1)}

AM0Programs == SeqsUpTo(AM0RunInstructions, MaxProgram) \cup {AM0_EXAMPLE_PROGRAM1}

InitRunAM0 ==
    /\ \E in \in RunInputs : Default("AM0", in) /\ given = in
    /\ program \in AM0Programs
    /\ pc = "start"
    /\ outputs = << >>
    /\ NoCall
    /\ NoText
    /\ phase = "ready"

\* yield self.execute_instruction(program[self.counter - 1]) on the AM0
\* machine; an exception ends the generator
AM0RunStep ==
    /\ pc = "loop"
    /\ InProgram(counter, program)
    /\ Len(outputs) < MaxSteps
    /\ AM0Apply(PyGet(program, counter - 1))
    /\ pre' = AM0Self
    /\ outputs' = IF fault' = "none" THEN Yield(outputs, value') ELSE outputs
    /\ pc' = IF fault' = "none" THEN "loop" ELSE "fault"
    /\ UNCHANGED << stdout, source, parsed, kind, given, yielded, program, phase >>

NextRunAM0 ==
    \/ RunStart
    \/ AM0RunStep
    \/ RunStop

SpecRunAM0 == InitRunAM0 /\ [][NextRunAM0]_vars

RECURSIVE SumOfSquares(_)
SumOfSquares(n) == IF n <= 0 THEN 0 ELSE n * n + SumOfSquares(n - 1)

\* C23: EXAMPLE_PROGRAM1 of test_am0, run from the default state with first
\* input value n >= 0, ends without a fault after exactly 10 + 15*n
\* instructions; its only output, yielded last, is the sum of i*i for
\* i = 1..n; it consumes one input value and leaves the operand stack empty.
C23_ExampleProgramAM0 ==
    (program = AM0_EXAMPLE_PROGRAM1 /\ given # << >>)
    => LET n == given[1]
           steps == 10 + 15 * n
       IN  /\ pc # "fault"
           /\ Len(outputs) <= steps
           /\ (pc = "loop" /\ Len(outputs) = steps) => ~InProgram(counter, program)
           /\ pc = "done" =>
                /\ Len(outputs) = steps
                /\ \A k \in 1 .. steps :
                      outputs[k] = IF k = steps THEN << SumOfSquares(n) >> ELSE << >>
                /\ input = Tail(given)
                /\ stack = << >>

\* the run on the largest first input has finished with its output
C23_Witness ==
    /\ program = AM0_EXAMPLE_PROGRAM1
    /\ pc = "done"
    /\ given # << >>
    /\ given[1] = MaxN
    /\ value = << SumOfSquares(MaxN) >>
    /\ Len(outputs) = 10 + 15 * MaxN


(***************************************************************************)
(* Further claims checked under Spec: the derived flags.                   *)
(***************************************************************************)
\* the payloads an instruction is compared with
OtherPayloads == Val \cup {0 - MaxPayload, MaxPayload}

\* C24: on AM1 the derived flags agree with execution: an instruction of an
\* opcode without has_context() gives, from the same state, the same
\* resulting state, output and fault under every context, and one of an
\* opcode without has_payload() gives the same under every payload.
C24_FlagsAgree ==
    Executed("AM1")
    => LET r == AM1Execute(pre, instr)
       IN  /\ r.m = AM1Self
           /\ r.fault = fault
           /\ r.value = value
           /\ ~AM1HasContext(instr.op)
              => \A c \in MemoryContext : AM1Execute(pre, [instr EXCEPT !.ctx = c]) = r
           /\ ~AM1HasPayload(instr.op)
              => \A p \in OtherPayloads :
                    AM1Execute(pre, [instr EXCEPT !.payload = p]) = r

\* inside a frame an instruction without context and one without payload
\* have been executed: LOADI from a cell of the frame, and PUSH
C24_Witness ==
    /\ Executed("AM1")
    /\ pre.reference_pointer = 2
    /\ fault = "none"
    /\ instr.op = "LOADI"
    /\ ~AM1HasContext(instr.op)
    /\ AM1Execute(pre, [instr EXCEPT !.ctx = "GLOBAL"]).m = AM1Self

\* a PUSH, which has no payload, has moved a value to the runtime stack
C24_WitnessPayload ==
    /\ Executed("AM1")
    /\ instr.op = "PUSH"
    /\ fault = "none"
    /\ ~AM1HasPayload(instr.op)
    /\ AM1Execute(pre, [instr EXCEPT !.payload = MaxPayload]).m = AM1Self


(***************************************************************************)
(* Further claims checked under SpecRun.                                   *)
(***************************************************************************)
\* the machine and the values k complete instructions give, executed one
\* after the other from the machine m, each the instruction at the counter
\* its predecessor left; stuck where the counter has left the program
RECURSIVE Replay(_, _, _)
Replay(m, outs, k) ==
    IF k = 0 THEN [m |-> m, outs |-> outs, stuck |-> FALSE]
    ELSE IF ~(1 <= m.counter /\ m.counter <= Len(program))
         THEN [m |-> m, outs |-> outs, stuck |-> TRUE]
    ELSE LET r == AM1Execute(m, program[m.counter])
         IN  Replay(r.m, Append(outs, r.value), k - 1)

\* the machine execute_program starts from
Started == [counter |-> 1, stack |-> << >>, runtime_stack |-> << >>,
            reference_pointer |-> 0, input |-> given]

\* C25: execute_program is lazy and yields once per executed instruction:
\* before the first pull nothing is executed; a caller who holds k values
\* has a machine in the state k complete instructions give, the k-th value
\* being what the k-th instruction returned; the next pull executes the
\* instruction at the current counter, and only that.
C25_Lazy ==
    /\ pc = "start" => (outputs = << >> /\ instr = NoInstr /\ AM1Self = Started)
    /\ pc \in {"loop", "done"}
       => LET r == Replay(Started, << >>, Len(outputs))
          IN  /\ ~r.stuck
              /\ r.m = AM1Self
              /\ r.outs = outputs
    /\ Pulled
       => /\ instr = program[pre.counter]
          /\ pre = Replay(Started, << >>,
                          IF pc = "fault" THEN Len(outputs) ELSE Len(outputs) - 1).m
          /\ AM1Execute(pre, instr).m = AM1Self
          /\ pc # "fault" => outputs[Len(outputs)] = value

\* the caller of EXAMPLE_PROGRAM1 holds 36 values, the last of them the
\* program's output, and the generator can be pulled again
C25_Witness ==
    /\ program = EXAMPLE_PROGRAM1
    /\ pc = "loop"
    /\ given # << >>
    /\ given[1] = 1
    /\ Len(outputs) = 36
    /\ outputs[36] = << 2 >>
    /\ InProgram(counter, program)


(***************************************************************************)
(* Further claims checked under Spec: the two machines side by side.       *)
(***************************************************************************)
SharedOps == BinaryOps \cup {"LIT", "JMP", "JMC"}

\* the memories and the runtime stacks with frame pointers the other
\* machine is given
OtherMemories == {<< >>} \cup {[k \in {1} |-> v] : v \in Val}

OtherFrames ==
    {[runtime_stack |-> rs, reference_pointer |-> fp] :
        rs \in SeqsUpTo(Val, 1), fp \in {0, 1}}

\* C26: AM0 and AM1 agree on ADD, MUL, SUB, DIV, MOD, EQ, NE, LT, GT, LE,
\* GE, LIT, JMP and JMC: the same opcode and payload executed from states
\* with equal counter and operand stack give on both machines the same
\* counter and operand stack, no output and the same fault or success, and
\* leave memory, runtime stack and frame pointer as they were.
C26_SharedOpcodes ==
    /\ (Executed("AM1") /\ instr.op \in SharedOps)
       => /\ value = << >>
          /\ runtime_stack = pre.runtime_stack
          /\ reference_pointer = pre.reference_pointer
          /\ \A mem \in OtherMemories :
                LET r == AM0Execute([counter |-> pre.counter, stack |-> pre.stack,
                                     memory |-> mem, input |-> pre.input],
                                    [op |-> instr.op, payload |-> instr.payload])
                IN  /\ r.m.counter = counter
                    /\ r.m.stack = stack
                    /\ r.fault = fault
                    /\ r.value = << >>
                    /\ r.m.memory = mem
    /\ (Executed("AM0") /\ instr.op \in SharedOps)
       => /\ value = << >>
          /\ memory = pre.memory
          /\ \A f \in OtherFrames, c \in MemoryContext :
                LET r == AM1Execute([counter |-> pre.counter, stack |-> pre.stack,
                                     runtime_stack |-> f.runtime_stack,
                                     reference_pointer |-> f.reference_pointer,
                                     input |-> pre.input],
                                    [op |-> instr.op, ctx |-> c, payload |-> instr.payload])
                IN  /\ r.m.counter = counter
                    /\ r.m.stack = stack
                    /\ r.fault = fault
                    /\ r.value = << >>
                    /\ r.m.runtime_stack = f.runtime_stack
                    /\ r.m.reference_pointer = f.reference_pointer

\* the AM0 machine has divided -1 by 2
C26_Witness ==
    /\ Executed("AM0")
    /\ instr.op = "DIV"
    /\ pre.stack = << 0 - 1, 2 >>
    /\ stack = << 0 - 1 >>
    /\ fault = "none"


(***************************************************************************)
(* Further claims checked under SpecFrames.                                *)
(***************************************************************************)
\* frames() ran to its end on a machine whose saved-link chain is as CALL
\* leaves it
FramesOnIntactChain ==
    /\ phase = "called"
    /\ instr.op = "frames"
    /\ ChainIntact(pre.runtime_stack, pre.reference_pointer, 2)

\* the length of the prefix of the runtime stack beneath the outermost call
\* frame of the machine pre
PrefixBeneath ==
    LET chain == LinkChain(pre.runtime_stack, pre.reference_pointer)
    IN  IF chain = << >> THEN Len(pre.runtime_stack) ELSE chain[Len(chain)] - 2

\* frames() yielded a slice after those of the active calls
TopLevelYielded ==
    Len(yielded[1].slices)
        = Len(LinkChain(pre.runtime_stack, pre.reference_pointer)) + 1

\* C27 as stated: frames() yields the final top-level slice, the prefix of
\* the runtime stack beneath the outermost call frame, if and only if that
\* prefix has length greater than 2.
C27_TopLevelSliceAsStated ==
    FramesOnIntactChain => (TopLevelYielded <=> PrefixBeneath > 2)

\* C27, amended: frames() yields the final top-level slice, the prefix of
\* the runtime stack beneath the outermost call frame, if and only if that
\* prefix is not empty (the walk ends with previous_reference > 2, the
\* prefix being runtime_stack[:previous_reference - 2]).
C27_TopLevelSlice ==
    FramesOnIntactChain
    => /\ yielded[1].end = "done"
       /\ Len(yielded[1].slices)
            \in {Len(LinkChain(pre.runtime_stack, pre.reference_pointer)),
                 Len(LinkChain(pre.runtime_stack, pre.reference_pointer)) + 1}
       /\ TopLevelYielded <=> PrefixBeneath > 0
       /\ TopLevelYielded
          => yielded[1].slices[Len(yielded[1].slices)]
                = SubSeq(pre.runtime_stack, 1, PrefixBeneath)

\* frames() ran on one call above a prefix of two cells
C27_Witness ==
    /\ phase = "called"
    /\ instr.op = "frames"
    /\ pre.runtime_stack = << 4, 5, 2, 0 >>
    /\ pre.reference_pointer = 4
    /\ yielded[1].slices = << << 2, 0 >>, << 4, 5 >> >>


(***************************************************************************)
(* Further claims checked under SpecRepl.                                  *)
(***************************************************************************)
\* a handler has run on the line source
Handled == phase \in {"called", "exited", "raised"}

\* counter, stack, runtime stack and frame pointer or memory, and the input
\* are as they were when the line was read, and nothing was executed
MachineUntouched ==
    /\ pre = (IF kind = "AM1" THEN AM1Self ELSE AM0Self)
    /\ instr = NoInstr
    /\ fault = "none"
    /\ value = << >>

\* C28: in the REPL the commands status and state, an empty line, an
\* unknown command and an exec whose argument fails to parse leave counter,
\* stack, memory and input unchanged; an empty line does nothing at all (it
\* does not repeat a command), and a parse failure is reported as 'Error
\* while parsing' with nothing executed.
C28_NoEffect ==
    Handled
    => /\ Strip(source) = << >>
          => (MachineUntouched /\ stdout = << >> /\ phase = "called")
       /\ Strip(source) \in {<< "s", "t", "a", "t", "u", "s" >>,
                             << "s", "t", "a", "t", "e" >>}
          => (MachineUntouched /\ stdout # << >> /\ phase = "called")
       /\ source \in {<< "r", "u", "n" >>,
                      << "E", "X", "E", "C", " ", "D", "I", "V" >>,
                      << "!", "e", "x", "e", "c", " ", "D", "I", "V" >>}
          => /\ MachineUntouched
             /\ stdout = << "*** Unknown command: " \o Join(source) \o "\n" >>
             /\ phase = "called"
       /\ (parsed # << >> /\ parsed[1].fault # "none")
          => /\ MachineUntouched
             /\ stdout = << "Error while parsing: " \o parsed[1].fault \o "\n" >>
             /\ phase = "called"
       /\ (IsPrefix(WordExec, Strip(source)) /\ parsed # << >> /\ parsed[1].fault = "none")
          => instr = parsed[1].instr

\* after exec LIT 1 an empty line was read: the machine is as LIT 1 left it
C28_Witness ==
    /\ phase = "called"
    /\ kind = "AM1"
    /\ source = << " ", " " >>
    /\ counter = 2
    /\ stack = << 1 >>
    /\ stdout = << >>

\* exec LOAD(local,1) was read
C28_WitnessParse ==
    /\ phase = "called"
    /\ kind = "AM1"
    /\ source = WordExec \o << " " >> \o Mnemonics[12] \o << "(" >> \o WordLocal
                    \o << ",", "1", ")" >>
    /\ stdout = << "Error while parsing: KeyError\n" >>


(***************************************************************************)
(* SpecProtocol: a program that keeps the frame protocol, executed on an   *)
(* AM1 machine from its default state: it pushes literals, calls, reserves *)
(* locals and returns, removing with RET no more parameters than lie       *)
(* between the frame and its caller's.  pre is the stack of the callers:   *)
(* for each active call the machine as it was when CALL began, the most    *)
(* recent last.                                                            *)
(***************************************************************************)
\* the bounds of the protocol run: runtime stack, counter, operand stack
ProtocolInBounds(m) ==
    /\ Len(m.runtime_stack) <= MaxFrameStack
    /\ m.counter <= MaxN + 2
    /\ Len(m.stack) <= 1

\* an instruction that neither calls nor returns
ProtocolStep(i) ==
    /\ ProtocolInBounds(AM1Execute(AM1Self, i).m)
    /\ AM1Apply(i)
    /\ UNCHANGED << stdout, source, parsed, kind, given, yielded, program, pc, outputs,
                    pre, phase >>

ProtocolLIT == \E v \in {0, 3} : ProtocolStep(I("LIT", "LOKAL", v))

ProtocolPUSH == ProtocolStep(I("PUSH", "LOKAL", 0))

ProtocolINIT == \E k \in 0 .. MaxLocals : ProtocolStep(I("INIT", "LOKAL", k))

ProtocolCALL ==
    /\ \E n \in 1 .. 2 :
          /\ ProtocolInBounds(AM1Execute(AM1Self, I("CALL", "LOKAL", n)).m)
          /\ AM1Apply(I("CALL", "LOKAL", n))
    /\ pre' = Append(pre, AM1Self)
    /\ UNCHANGED << stdout, source, parsed, kind, given, yielded, program, pc, outputs,
                    phase >>

\* RET p with 0 <= p <= frame pointer - 2 - saved frame pointer; at top
\* level, where there is no saved frame pointer, RET faults whatever p is
ProtocolRET ==
    /\ \E p \in 0 .. MaxFrameStack :
          /\ reference_pointer >= 1 /\ reference_pointer <= Len(runtime_stack)
             => p <= reference_pointer - 2 - runtime_stack[reference_pointer]
          /\ ~(reference_pointer >= 1 /\ reference_pointer <= Len(runtime_stack))
             => p <= 1
          /\ ProtocolInBounds(AM1Execute(AM1Self, I("RET", "LOKAL", p)).m)
          /\ AM1Apply(I("RET", "LOKAL", p))
    /\ pre' = IF fault' = "none" THEN SubSeq(pre, 1, Len(pre) - 1) ELSE pre
    /\ UNCHANGED << stdout, source, parsed, kind, given, yielded, program, pc, outputs,
                    phase >>

InitProtocol ==
    /\ Default("AM1", InputSource)
    /\ given = InputSource
    /\ NoCall
    /\ NoText
    /\ phase = "ready"
    /\ DriverIdle

NextProtocol ==
    \/ ProtocolLIT
    \/ ProtocolPUSH
    \/ ProtocolINIT
    \/ ProtocolCALL
    \/ ProtocolRET

SpecProtocol == InitProtocol /\ [][NextProtocol]_vars

\* C29: in every state reached from the default state with LIT, PUSH,
\* INIT k (k >= 0), CALL and RET p (0 <= p <= frame pointer - 2 - saved
\* frame pointer), the frame pointer is 0 or lies in 2 .. len(runtime
\* stack); when it is not 0 the cell at the 1-based index frame pointer
\* holds the caller's frame pointer, which is strictly smaller, and the cell
\* below it holds the return address, the caller's counter at CALL plus 1.
C29_FrameProtocol ==
    /\ reference_pointer = 0 <=> pre = << >>
    /\ reference_pointer # 0
       => /\ 2 <= reference_pointer
          /\ reference_pointer <= Len(runtime_stack)
          /\ runtime_stack[reference_pointer] = pre[Len(pre)].reference_pointer
          /\ runtime_stack[reference_pointer] < reference_pointer
          /\ runtime_stack[reference_pointer - 1] = pre[Len(pre)].counter + 1

\* a call inside a call has returned and taken its one parameter, all that
\* lay between its frame and its caller's, with it
C29_Witness ==
    /\ instr = I("RET", "LOKAL", 1)
    /\ fault = "none"
    /\ Len(pre) = 1
    /\ reference_pointer = 2
    /\ Len(runtime_stack) = 2


\* the 1-based cell that (ctx, a) names under the frame pointer fp
Resolved(ctx, a, fp) == IF ctx = "LOKAL" THEN a + fp ELSE a

\* C30: after a STORE(ctx, a) that returned, having popped v, the runtime
\* stack is as long as before and differs from the one before in nothing but
\* the cell at the 1-based index resolve(ctx, a, frame pointer), which holds
\* v, and a LOAD(ctx, a) executed next returns and pushes v, leaving the
\* runtime stack as it is; a STORE to the cell one past the end raises
\* IndexError and leaves the runtime stack alone; a LOAD that returned left
\* the runtime stack unchanged.
C30_StoreLoad ==
    kind = "AM1" /\ phase = "called" /\ pre # << >>
    => LET cell == Resolved(instr.ctx, instr.payload, pre.reference_pointer)
           v == pre.stack[Len(pre.stack)]
           load == AM1Execute(AM1Self, I("LOAD", instr.ctx, instr.payload))
       IN  /\ instr.op = "STORE" /\ fault = "none"
              => /\ cell \in 1 .. Len(pre.runtime_stack)
                 /\ Len(runtime_stack) = Len(pre.runtime_stack)
                 /\ runtime_stack[cell] = v
                 /\ \A k \in 1 .. Len(runtime_stack) :
                       k # cell => runtime_stack[k] = pre.runtime_stack[k]
                 /\ stack = SubSeq(pre.stack, 1, Len(pre.stack) - 1)
                 /\ load.fault = "none"
                 /\ load.m.stack = Append(stack, v)
                 /\ load.m.runtime_stack = runtime_stack
           /\ instr.op = "STORE" /\ pre.stack # << >>
              /\ cell = Len(pre.runtime_stack) + 1
              => fault = "IndexError" /\ runtime_stack = pre.runtime_stack
           /\ instr.op = "LOAD" /\ fault = "none"
              => runtime_stack = pre.runtime_stack

\* a STORE relative to the frame of a call has put a new value into a cell
C30_Witness ==
    /\ kind = "AM1" /\ phase = "called" /\ pre # << >>
    /\ instr.op = "STORE" /\ instr.ctx = "LOKAL" /\ fault = "none"
    /\ reference_pointer > 0
    /\ runtime_stack # pre.runtime_stack

\* a STORE to the cell one past the end of a runtime stack that has cells
C30_WitnessPastEnd ==
    /\ kind = "AM1" /\ phase = "called" /\ pre # << >>
    /\ instr.op = "STORE" /\ pre.stack # << >> /\ pre.runtime_stack # << >>
    /\ Resolved(instr.ctx, instr.payload, pre.reference_pointer)
          = Len(pre.runtime_stack) + 1


\* the value in the cell that LOKAL address a names on machine m, 0 when
\* it names none
Pointer(m, a) ==
    LET c == a + m.reference_pointer
    IN  IF c \in 1 .. Len(m.runtime_stack) THEN m.runtime_stack[c] ELSE 0

IndirectOps == {"LOADI", "STOREI", "WRITEI", "READI"}

Direct(op) ==
    CASE op = "LOADI"  -> "LOAD"
      [] op = "STOREI" -> "STORE"
      [] op = "WRITEI" -> "WRITE"
      [] op = "READI"  -> "READ"

C31_WitnessSTOREI ==
    /\ kind = "AM1" /\ phase = "called" /\ pre # << >>
    /\ instr.op = "STOREI" /\ fault = "none"
    /\ runtime_stack # pre.runtime_stack

\* LOADA has pushed an address beyond the runtime stack
C31_WitnessLOADA ==
    /\ kind = "AM1" /\ phase = "called" /\ pre # << >>
    /\ instr.op = "LOADA" /\ fault = "none"
    /\ stack[Len(stack)] > Len(runtime_stack)

\* READI has faulted on a pointer beyond the runtime stack
C31_WitnessREADI ==
    /\ kind = "AM1" /\ phase = "called" /\ pre # << >>
    /\ instr.op = "READI" /\ fault = "IndexError"
    /\ Pointer(pre, instr.payload) > Len(pre.runtime_stack)


(***************************************************************************)
(* SpecParams: a caller on an AM1 machine passes parameters: it pushes     *)
(* literals onto the runtime stack (LIT v, PUSH), executes CALL, and the   *)
(* callee may reserve locals with INIT and then LOADs one cell.  The       *)
(* callee can become a caller in turn.  pre is the machine as it was when  *)
(* the caller began to push, program the instructions executed since.      *)
(***************************************************************************)
LastOp(prog) == IF prog = << >> THEN "none" ELSE prog[Len(prog)].op

ParamInBounds(m) ==
    /\ Len(m.runtime_stack) <= MaxFrameStack + MaxParams + 1
    /\ Len(m.stack) <= 2

ParamStep(i) ==
    /\ ParamInBounds(AM1Execute(AM1Self, i).m)
    /\ AM1Apply(i)
    /\ program' = Append(program, i)
    /\ UNCHANGED << stdout, source, parsed, kind, given, yielded, pc, outputs, pre >>

ParamLIT ==
    /\ phase = "pushing"
    /\ LastOp(program) \in {"none", "PUSH"}
    /\ Len(program) < 2 * MaxParams
    /\ \E v \in {1, 3} : ParamStep(I("LIT", "LOKAL", v))
    /\ UNCHANGED phase

ParamPUSH ==
    /\ phase = "pushing"
    /\ LastOp(program) = "LIT"
    /\ ParamStep(I("PUSH", "LOKAL", 0))
    /\ UNCHANGED phase

ParamCALL ==
    /\ phase = "pushing"
    /\ LastOp(program) \in {"none", "PUSH"}
    /\ \E n \in 1 .. 2 : ParamStep(I("CALL", "LOKAL", n))
    /\ phase' = "called"

ParamINIT ==
    /\ phase = "called"
    /\ \E m \in 0 .. MaxLocals : ParamStep(I("INIT", "LOKAL", m))
    /\ phase' = "inited"

ParamLOAD ==
    /\ phase \in {"called", "inited"}
    /\ \E c \in MemoryContext, a \in (0 - MaxParams - 2) .. (MaxFrameStack + 1) :
          ParamStep(I("LOAD", c, a))
    /\ phase' = "loaded"

\* the callee goes on as the caller of the next call
ParamBegin ==
    /\ phase \in {"called", "inited", "loaded"}
    /\ Len(stack) <= 1
    /\ pre' = AM1Self
    /\ program' = << >>
    /\ phase' = "pushing"
    /\ instr' = NoInstr
    /\ fault' = "none"
    /\ value' = << >>
    /\ UNCHANGED << stdout, source, parsed, kind, given, yielded, pc, outputs,
                    counter, stack, runtime_stack, reference_pointer, input,
                    memory, keys >>

InitParams ==
    /\ Default("AM1", InputSource)
    /\ given = InputSource
    /\ instr = NoInstr
    /\ fault = "none"
    /\ value = << >>
    /\ yielded = << >>
    /\ stdout = << >>
    /\ pre = [counter |-> 1, stack |-> << >>, runtime_stack |-> << >>,
              reference_pointer |-> 0, input |-> InputSource]
    /\ program = << >>
    /\ pc = "none"
    /\ outputs = << >>
    /\ NoText
    /\ phase = "pushing"

NextParams ==
    \/ ParamLIT
    \/ ParamPUSH
    \/ ParamCALL
    \/ ParamINIT
    \/ ParamLOAD
    \/ ParamBegin

SpecParams == InitParams /\ [][NextParams]_vars

\* how many PUSHes the caller executed before its CALL
ParamCount == Cardinality({n \in 1 .. Len(program) : program[n].op = "PUSH"})

\* v1 .. vk: the literals the caller pushed, in the order it pushed them
ParamValues == [j \in 1 .. ParamCount |-> program[2 * j - 1].payload]

\* the locals the callee reserved
LocalCount ==
    IF \E n \in 1 .. Len(program) : program[n].op = "INIT"
    THEN program[2 * ParamCount + 2].payload ELSE 0

\* C32: the caller having pushed v1 .. vk and executed CALL, a LOAD in the
\* callee with context LOKAL and address -1 - j (1 <= j <= k) pushes
\* v(k+1-j), with address -1 the return address (the caller's counter at
\* CALL plus 1), with address 0 the caller's frame pointer, and after INIT m
\* with address 1 .. m the value 0; a LOAD with context GLOBAL of a cell
\* the runtime stack had just before the CALL pushes what it pushes on the
\* caller's machine just before the CALL.
C32_FrameRelative ==
    phase = "loaded"
    => LET k == ParamCount
           a == instr.payload
           before == pre.runtime_stack \o ParamValues
           atCall == [pre EXCEPT !.runtime_stack = before,
                                 !.counter = pre.counter + 2 * k]
           pushed == stack[Len(stack)]
       IN  /\ instr.ctx = "LOKAL" /\ a \in (0 - 1 - k) .. (0 - 2)
              => fault = "none" /\ pushed = ParamValues[k + 2 + a]
           /\ instr.ctx = "LOKAL" /\ a = 0 - 1
              => fault = "none" /\ pushed = pre.counter + 2 * k + 1
           /\ instr.ctx = "LOKAL" /\ a = 0
              => fault = "none" /\ pushed = pre.reference_pointer
           /\ instr.ctx = "LOKAL" /\ a \in 1 .. LocalCount
              => fault = "none" /\ pushed = 0
           /\ instr.ctx = "GLOBAL" /\ a \in 1 .. Len(before)
              => LET d == AM1Execute(atCall, instr)
                 IN  /\ fault = "none" /\ d.fault = "none"
                     /\ pushed = d.m.stack[Len(d.m.stack)]
                     /\ pushed = before[a]

\* the callee of a call made from inside a call has loaded the first of two
\* different parameters
C32_Witness ==
    /\ phase = "loaded"
    /\ pre.reference_pointer > 0
    /\ ParamCount = 2
    /\ ParamValues[1] # ParamValues[2]
    /\ instr = I("LOAD", "LOKAL", 0 - 3)
    /\ fault = "none"
    /\ stack[Len(stack)] = ParamValues[1]

\* the callee has loaded a local it reserved
C32_WitnessLocal ==
    /\ phase = "loaded"
    /\ instr.ctx = "LOKAL" /\ instr.payload \in 1 .. LocalCount
    /\ fault = "none"

\* the callee has loaded one of the caller's cells through GLOBAL
C32_WitnessGlobal ==
    /\ phase = "loaded"
    /\ pre.reference_pointer > 0
    /\ instr.ctx = "GLOBAL" /\ fault = "none"
    /\ stack[Len(stack)] # 0


\* C33: INIT k never raises; it leaves the operand stack, the frame pointer
\* and the input alone and moves the counter on by one; for k >= 0 the
\* runtime stack is the one before followed by exactly k cells holding 0,
\* for k <= 0 it is the one before.
C33_Init ==
    kind = "AM1" /\ phase = "called" /\ pre # << >> /\ instr.op = "INIT"
    => /\ fault = "none"
       /\ value = << >>
       /\ stack = pre.stack
       /\ reference_pointer = pre.reference_pointer
       /\ input = pre.input
       /\ counter = pre.counter + 1
       /\ Len(runtime_stack) >= Len(pre.runtime_stack)
       /\ SubSeq(runtime_stack, 1, Len(pre.runtime_stack)) = pre.runtime_stack
       /\ instr.payload >= 0
          => /\ Len(runtime_stack) = Len(pre.runtime_stack) + instr.payload
             /\ \A n \in Len(pre.runtime_stack) + 1 .. Len(runtime_stack) :
                   runtime_stack[n] = 0
       /\ instr.payload <= 0 => runtime_stack = pre.runtime_stack

\* INIT with a negative count on a runtime stack that has cells
C33_Witness ==
    /\ kind = "AM1" /\ phase = "called" /\ pre # << >>
    /\ instr.op = "INIT" /\ instr.payload < 0
    /\ pre.runtime_stack # << >>

\* INIT has appended two cells to a runtime stack
C33_WitnessAppend ==
    /\ kind = "AM1" /\ phase = "called" /\ pre # << >>
    /\ instr.op = "INIT" /\ instr.payload = 2
    /\ Len(runtime_stack) = Len(pre.runtime_stack) + 2


\* C34: a READ or READI that raised for its address (resolving to 0 or
\* less, or naming no cell of the runtime stack, directly or through the
\* pointer) has not consumed an input value: the input is what it was.
C34_FaultingReadKeepsInput ==
    /\ kind = "AM1" /\ phase = "called" /\ pre # << >>
    /\ instr.op \in {"READ", "READI"}
    /\ fault \in {"ValueError: address", "IndexError"}
    => input = pre.input


\* the machine is as the caller held it before the call
SameAsBefore ==
    /\ counter = pre.counter
    /\ stack = pre.stack
    /\ input = pre.input
    /\ kind = "AM1" => /\ runtime_stack = pre.runtime_stack
                       /\ reference_pointer = pre.reference_pointer
    /\ kind = "AM0" => memory = pre.memory

\* C35: on both machines a binary opcode executed with fewer than two
\* operands raises IndexError, DIV and MOD executed with two operands or
\* more and 0 on top raise ZeroDivisionError, JMC and (on AM1) PUSH executed
\* with an empty operand stack raise IndexError; each time counter, operand
\* stack, runtime stack or memory, frame pointer and input are as before.
C35_OperandFaults ==
    phase = "called" /\ pre # << >>
    => /\ instr.op \in BinaryOps /\ Len(pre.stack) < 2
          => fault = "IndexError" /\ SameAsBefore
       /\ instr.op \in {"DIV", "MOD"} /\ Len(pre.stack) >= 2
          /\ pre.stack[Len(pre.stack)] = 0
          => fault = "ZeroDivisionError" /\ SameAsBefore
       /\ instr.op \in {"JMC", "PUSH"} /\ pre.stack = << >>
          => fault = "IndexError" /\ SameAsBefore

\* the AM0 machine has been asked to divide by zero
C35_Witness ==
    /\ kind = "AM0" /\ phase = "called" /\ pre # << >>
    /\ instr.op = "DIV" /\ Len(pre.stack) >= 2
    /\ pre.stack[Len(pre.stack)] = 0 /\ pre.stack[Len(pre.stack) - 1] # 0

\* a binary opcode with one operand on an AM1 machine whose counter has moved
C35_WitnessOneOperand ==
    /\ kind = "AM1" /\ phase = "called" /\ pre # << >>
    /\ instr.op \in BinaryOps /\ Len(pre.stack) = 1 /\ pre.counter # 1

\* PUSH with an empty operand stack and a runtime stack that has cells
C35_WitnessPush ==
    /\ kind = "AM1" /\ phase = "called" /\ pre # << >>
    /\ instr.op = "PUSH" /\ pre.stack = << >> /\ pre.runtime_stack # << >>


(***************************************************************************)
(* SpecRerun: execute_program called twice on one AM1 machine, with no     *)
(* reset() in between.  In the second run pre is the machine as the first  *)
(* run left it, and phase is "again".                                      *)
(***************************************************************************)
\* what the second program is made of
RerunInstructions ==
    {I("READ", "GLOBAL", 1), I("WRITE", "GLOBAL", 1), I("ADD", "LOKAL", 0),
     I("LIT", "LOKAL", 1), I("RET", "LOKAL", 0)}

InitRerun ==
    /\ \E in \in RunInputs : Default("AM1", in) /\ given = in
    /\ program \in SeqsUpTo(RunInstructions, MaxProgram)
    /\ pc = "start"
    /\ outputs = << >>
    /\ NoCall
    /\ NoText
    /\ phase = "ready"

\* a step of the first run
FirstStep == phase = "ready" /\ RunStep

\* list(machine.execute_program(...)) has ended, by return or by an
\* exception; the caller calls machine.execute_program(second)
RunAgain ==
    /\ phase = "ready"
    /\ pc \in {"done", "fault"}
    /\ program' \in SeqsUpTo(RerunInstructions, MaxProgram)
    /\ pc' = "start"
    /\ outputs' = << >>
    /\ pre' = AM1Self
    /\ instr' = NoInstr
    /\ fault' = "none"
    /\ value' = << >>
    /\ phase' = "again"
    /\ UNCHANGED << stdout, keys, source, parsed, kind, counter, stack, runtime_stack,
                    reference_pointer, memory, given, input, yielded >>

\* a step of the second run
AgainStep ==
    /\ phase = "again"
    /\ pc = "loop"
    /\ InProgram(counter, program)
    /\ Len(outputs) < MaxSteps
    /\ AM1Apply(PyGet(program, counter - 1))
    /\ outputs' = IF fault' = "none" THEN Yield(outputs, value') ELSE outputs
    /\ pc' = IF fault' = "none" THEN "loop" ELSE "fault"
    /\ UNCHANGED << stdout, source, parsed, kind, given, yielded, program, phase, pre >>

NextRerun ==
    \/ RunStart
    \/ FirstStep
    \/ RunStop
    \/ RunAgain
    \/ AgainStep

SpecRerun == InitRerun /\ [][NextRerun]_vars

\* the machine the first run left, with the counter at 1
Leftover == [pre EXCEPT !.counter = 1]

\* C36: the second execute_program on a machine resets nothing but the
\* counter: before its first pull the machine is as the first run left it,
\* and after k pulls machine and values are what k instructions of the
\* second program give when executed from the operand stack, runtime stack,
\* frame pointer and remaining input the first run left, with counter 1; a
\* faulting pull is the next instruction executed from there.
C36_Leftover ==
    phase = "again"
    => /\ pc = "start" => AM1Self = pre /\ outputs = << >>
       /\ pc \in {"loop", "done", "fault"}
          => LET r == Replay(Leftover, << >>, Len(outputs))
             IN  /\ ~r.stuck
                 /\ r.outs = outputs
                 /\ pc # "fault" => r.m = AM1Self
                 /\ pc = "fault"
                    => /\ InProgram(r.m.counter, program)
                       /\ AM1Execute(r.m, program[r.m.counter]).m = AM1Self
                       /\ AM1Execute(r.m, program[r.m.counter]).fault = fault

\* the first run consumed an input value and left cells on the runtime
\* stack; a READ of the second run has stored the next value of the input
C36_Witness ==
    /\ phase = "again"
    /\ pc = "done"
    /\ Len(given) = 2
    /\ pre.input = Tail(given)
    /\ pre.runtime_stack # << >>
    /\ pre.counter # 1
    /\ instr = I("READ", "GLOBAL", 1)
    /\ fault = "none"
    /\ runtime_stack[1] = given[2]
    /\ input = << >>

\* the second run has added to an operand the first run left on the stack
C36_WitnessStack ==
    /\ phase = "again"
    /\ pre.stack # << >>
    /\ instr.op = "ADD" /\ fault = "none"
    /\ Len(outputs) = 2


(***************************************************************************)
(* SpecStraight: execute_program on programs without a jump-like opcode,   *)
(* the caller pulling values until the generator ends                      *)
(* (list(machine.execute_program(program))), which it does not stop doing: *)
(* weak fairness of the run.                                               *)
(***************************************************************************)
\* the instructions that are not is_jump()
StraightInstructions ==
    {i \in RunInstructions
           \cup {I("DIV", "LOKAL", 0), I("INIT", "LOKAL", 1),
                 I("STORE", "GLOBAL", 1), I("LOAD", "GLOBAL", 1)} :
        ~AM1IsJump(i.op)}

InitStraight ==
    /\ \E in \in RunInputs : Default("AM1", in) /\ given = in
    /\ program \in SeqsUpTo(StraightInstructions, MaxProgram + 1)
    /\ pc = "start"
    /\ outputs = << >>
    /\ NoCall
    /\ NoText
    /\ phase = "ready"

NextStraight ==
    \/ RunStart
    \/ RunStep
    \/ RunStop

SpecStraight == InitStraight /\ [][NextStraight]_vars /\ WF_vars(NextStraight)

\* the run is at its n-th instruction having executed those before it once,
\* in order
InOrderSoFar ==
    /\ counter = Len(outputs) + 1
    /\ Len(outputs) <= Len(program)
    /\ outputs # << >> /\ pc # "fault"
       => instr = program[Len(outputs)] /\ pre.counter = Len(outputs)

\* C37: execute_program on a program without JMP, JMC, CALL and RET
\* terminates; it executes the instructions 1, 2, ... in order, each at most
\* once, and ends at the first instruction that raises, the counter still
\* on it, or after exactly len(program) instructions with counter =
\* len(program) + 1.
C37_StraightLine ==
    /\ [](pc \in {"loop", "done", "fault"} => InOrderSoFar)
    /\ [](pc = "done" => Len(outputs) = Len(program) /\ counter = Len(program) + 1)
    /\ [](pc = "fault" => /\ Len(outputs) < Len(program)
                          /\ instr = program[Len(outputs) + 1]
                          /\ pre.counter = Len(outputs) + 1
                          /\ fault # "none")
    /\ <>(pc \in {"done", "fault"})

\* a program of three instructions has run to its end
C37_Witness ==
    /\ pc = "done"
    /\ Len(program) = MaxProgram + 1
    /\ Len(outputs) = Len(program)
    /\ stack # << >>

\* a run has ended at its second instruction, which raised
C37_WitnessFault ==
    /\ pc = "fault"
    /\ Len(outputs) = 1
    /\ Len(program) = MaxProgram + 1


(***************************************************************************)
(* SpecMain: the entry points main_exec and main_trace (phase "exec" and   *)
(* "trace") on a file holding source, with the AM1 classes.  pc is where   *)
(* the entry point stands: before parsing, before the loop, in it, or      *)
(* ended by return ("done") or by an exception of the parser ("raised")    *)
(* or of the machine ("fault").  stdout holds the lines written: by print  *)
(* in main_exec, to sys.stderr in main_trace.                              *)
(***************************************************************************)
\* INIT 1;
LineINIT == << "I", "N", "I", "T", " ", "1", ";" >>

\* READ(global,1);
LineREAD == << "R", "E", "A", "D", "(", "g", "l", "o", "b", "a", "l", ",", "1", ")", ";" >>

\* WRITE(global,1);
LineWRITE == << "W", "R", "I", "T", "E", "(", "g", "l", "o", "b", "a", "l", ",", "1", ")", ";" >>

MainLines ==
    {LineINIT, LineREAD, LineWRITE, LineNoSemicolon, LineUnknownName, LineBadPayload}

MainSources == {JoinLines(ls) : ls \in SeqsUpTo(MainLines, MaxLines)}

\* an entry point that runs whatever the parser yielded before it raised
MainParses_RunsPrefix(r) == [pc |-> "start", program |-> r.program]

\* program = tuple(instruction.parse_program(...)): the assignment takes
\* place only if the generator ends without raising
MainParses(r) ==
    IF r.fault = "none" THEN [pc |-> "start", program |-> r.program]
    ELSE [pc |-> "raised", program |-> << >>]

InitMain ==
    /\ \E in \in {<< >>, << 7, 8 >>} : Default("AM1", in) /\ given = in
    /\ NoCall
    /\ DriverIdle
    /\ source \in MainSources
    /\ parsed = << >>
    /\ phase \in {"exec", "trace"}

MainParse ==
    /\ pc = "none"
    /\ parsed = << >>
    /\ LET r == parse_program(source)
       IN  /\ parsed' = << r >>
           /\ program' = MainParses(r).program
           /\ pc' = MainParses(r).pc
    /\ UNCHANGED << stdout, keys, source, kind, counter, stack, runtime_stack,
                    reference_pointer, memory, given, input, instr, fault, value,
                    yielded, outputs, pre, phase >>

\* machine.default(...), in main_trace the first line of the trace, and the
\* first next() of execute_program as far as self.counter = 1
MainStart ==
    /\ pc = "start"
    /\ counter' = 1
    /\ stdout' = IF phase = "trace"
                 THEN << Join(AM1State(AM1Self, input, outputs)) \o "\n" >>
                 ELSE << >>
    /\ pc' = "loop"
    /\ UNCHANGED << keys, source, parsed, kind, stack, runtime_stack, reference_pointer,
                    memory, given, input, instr, fault, value, yielded, program,
                    outputs, pre, phase >>

\* one turn of for value in _machine.execute_program(program)
MainStep ==
    /\ pc = "loop"
    /\ InProgram(counter, program)
    /\ Len(stdout) <= MaxLines + 1
    /\ LET r == AM1Execute(AM1Self, PyGet(program, counter - 1))
           out == IF phase = "trace" /\ r.fault = "none" /\ r.value # << >>
                  THEN Append(outputs, r.value[1]) ELSE outputs
       IN  /\ AM1Apply(PyGet(program, counter - 1))
           /\ outputs' = out
           /\ stdout' = IF r.fault # "none" THEN stdout
                        ELSE IF phase = "trace"
                        THEN Append(stdout, Join(AM1State(r.m, r.m.input, out)) \o "\n")
                        ELSE stdout \o ExecWrites("none", r.value)
           /\ pc' = IF r.fault = "none" THEN "loop" ELSE "fault"
    /\ pre' = AM1Self
    /\ UNCHANGED << source, parsed, kind, given, yielded, program, phase >>

MainStop ==
    /\ pc = "loop"
    /\ ~InProgram(counter, program)
    /\ pc' = "done"
    /\ UNCHANGED << stdout, keys, source, parsed, kind, counter, stack, runtime_stack,
                    reference_pointer, memory, given, input, instr, fault, value,
                    yielded, program, outputs, pre, phase >>

NextMain ==
    \/ MainParse
    \/ MainStart
    \/ MainStep
    \/ MainStop

SpecMain == InitMain /\ [][NextMain]_vars

\* some line of the text has a parse fault: it holds more than whitespace
\* and does not end with ";", or what stands before the ";" does not parse
HasParseFault(src) ==
    \E n \in 1 .. Len(Split(src, "\n")) :
       LET l == Split(src, "\n")[n]
       IN  /\ ~Blank(l)
           /\ Terminator(l) = 0 \/ parse(Body(l)).fault # "none"

\* C38: main_exec and main_trace parse the whole file before they execute
\* anything: when some line of the source has a parse fault, no instruction
\* is ever executed, no input is consumed and nothing is written, neither
\* an output nor a line of the trace; and whenever an instruction has been
\* executed the parser had returned the whole program.
C38_ParseFirst ==
    /\ HasParseFault(source)
       => /\ pc \in {"none", "raised"}
          /\ instr = NoInstr
          /\ IsDefault
          /\ input = given
          /\ stdout = << >>
          /\ outputs = << >>
          /\ program = << >>
    /\ instr # NoInstr \/ stdout # << >>
       => /\ parsed # << >>
          /\ parsed[1].fault = "none"
          /\ program = parsed[1].program

\* the trace of a file whose third line is the first that does not parse
\* has ended in the parser
C38_Witness ==
    /\ phase = "trace"
    /\ pc = "raised"
    /\ given # << >>
    /\ parsed[1].line = 3
    /\ Len(parsed[1].program) = 2
    /\ parsed[1].program[2].op = "READ"

\* the trace of a file that parses has read a value and written it
C38_WitnessRuns ==
    /\ phase = "trace"
    /\ pc = "done"
    /\ outputs = << 7 >>
    /\ Len(stdout) = 4

=============================================================================
